---- MODULE Spec2Model ----
(***************************************************************************)
(* A model of frclib-datalog: the record codec (proto/util.rs,             *)
(* proto/entries.rs, proto/records.rs), the Reader's ingest (reader.rs)    *)
(* and the Writer's state machine (writer.rs).                             *)
(*                                                                         *)
(* Representation.  A byte is a number in 0..255 and a byte slice is a     *)
(* sequence of bytes.  A u64 (FrcTimestamp, UInt.value) is the tuple of    *)
(* its eight little-endian bytes, so that all eight widths of a UInt are   *)
(* within reach of the model checker, whose integers are 32 bits wide.     *)
(* An i64, an f32 and an f64 are likewise the tuples of their              *)
(* little-endian bytes.  A u32 that the code computes with (entry id,      *)
(* payload length, string length) is a natural number.  Strings are        *)
(* sequences of ASCII codes; a byte >= 128 stands for a byte sequence      *)
(* that is not valid UTF-8 (the model draws 255, which no UTF-8 text       *)
(* holds).                                                                 *)
(***************************************************************************)
EXTENDS Integers, Sequences, FiniteSets, TLC

\* ------------------------------------------------------------------------
\* Results and options

Ok(v) == [ok |-> TRUE, val |-> v]

Err(e) == [ok |-> FALSE, err |-> e]

None == [some |-> FALSE]

Some(v) == [some |-> TRUE, val |-> v]

\* ------------------------------------------------------------------------
\* Fixed-width little-endian integers

Zeros(n) == [i \in 1..n |-> 0]

RECURSIVE to_le_bytes(_, _)
\* n.to_le_bytes() of a k-byte unsigned integer
to_le_bytes(n, k) ==
    IF k = 0 THEN <<>> ELSE <<n % 256>> \o to_le_bytes(n \div 256, k - 1)

RECURSIVE from_le_bytes(_)
\* uN::from_le_bytes(b)
from_le_bytes(b) ==
    IF b = <<>> THEN 0 ELSE b[1] + 256 * from_le_bytes(Tail(b))

\* the u64 of a u32 / usize
U64Of(n) == to_le_bytes(n, 8)

\* a < b on u64 values, decided at the most significant byte that differs
U64Less(a, b) ==
    \E i \in 1..8 : a[i] < b[i] /\ \A j \in (i + 1)..8 : a[j] = b[j]

U64Leq(a, b) == a = b \/ U64Less(a, b)

\* v <= 2^(8w) - 1: the bytes above the w lowest are zero
LeqMaxOfWidth(v, w) == \A i \in (w + 1)..8 : v[i] = 0

\* ------------------------------------------------------------------------
\* proto/util.rs: UInt

new_unchecked(size, value) == [size |-> size, value |-> value]

\* v < 2^(8w) - 1
BelowMaxOfWidth(v, w) == LeqMaxOfWidth(v, w) /\ \E i \in 1..w : v[i] # 255

\* a shrink whose comparisons would be `<`
shrink_below(self) ==
    LET universal_int == self.value
        fits == {w \in 1..7 : BelowMaxOfWidth(universal_int, w)}
    IN IF fits = {} THEN new_unchecked(8, universal_int)
       ELSE new_unchecked(CHOOSE w \in fits : \A x \in fits : w <= x, universal_int)

shrink(self) ==
    LET universal_int == self.value IN
    IF LeqMaxOfWidth(universal_int, 1) THEN new_unchecked(1, universal_int)
    ELSE IF LeqMaxOfWidth(universal_int, 2) THEN new_unchecked(2, universal_int)
    ELSE IF LeqMaxOfWidth(universal_int, 3) THEN new_unchecked(3, universal_int)
    ELSE IF LeqMaxOfWidth(universal_int, 4) THEN new_unchecked(4, universal_int)
    ELSE IF LeqMaxOfWidth(universal_int, 5) THEN new_unchecked(5, universal_int)
    ELSE IF LeqMaxOfWidth(universal_int, 6) THEN new_unchecked(6, universal_int)
    ELSE IF LeqMaxOfWidth(universal_int, 7) THEN new_unchecked(7, universal_int)
    ELSE new_unchecked(8, universal_int)

UInt_new(size, value) == shrink([size |-> size, value |-> value])

\* From<u32> for UInt
UInt_from_u32(int) == shrink(UInt_new(4, U64Of(int)))

\* From<u64> for UInt
UInt_from_u64(int) == shrink(UInt_new(8, int))

get_byte_count(self) == self.size

\* the first `size` bytes of the value in memory (little-endian host)
as_binary(self) == SubSeq(self.value, 1, self.size)

\* Deref: the value, where the code goes on with it as a u32 or usize
Deref(self) == from_le_bytes(self.value)

\* u8::try_from(len) fails above 255; bytes[..size] of an 8-byte array
\* panics for 8 < size <= 255
UInt_from_binary(le_bytes) ==
    LET size == Len(le_bytes) IN
    IF size > 255 THEN None
    ELSE IF size > 8 THEN [some |-> FALSE, panic |-> TRUE]
    ELSE Some(UInt_new(size, le_bytes \o Zeros(8 - size)))

\* ------------------------------------------------------------------------
\* proto/entries.rs: type serials

RECURSIVE SerialSum(_, _)
\* value after the loop over the characters at 1-based positions i..
SerialSum(ty, i) ==
    IF i > Len(ty) THEN 0 ELSE ty[i] * (i % 8) + SerialSum(ty, i + 1)

\* u32 arithmetic; the type strings of the model are too short to overflow
get_str_type_serial(ty) ==
    LET value == SerialSum(ty, 1)
        len == Len(ty)
    IN (value * len) + len

const_get_data_type_serial(chars) ==
    LET value == SerialSum(chars, 1)
        index == Len(chars)
    IN (value * index) + index

\* char::len_utf8
len_utf8(c) == IF c < 128 THEN 1 ELSE IF c < 2048 THEN 2 ELSE IF c < 65536 THEN 3 ELSE 4

RECURSIVE str_len(_)
\* str::len of a string given by its chars: the length of its UTF-8 bytes
str_len(chars) ==
    IF chars = <<>> THEN 0 ELSE len_utf8(Head(chars)) + str_len(Tail(chars))

\* a number as <<low 16 bits, the bits above>>; it is a u32 when the second
\* part is below 2^16
Wide(n) == <<n % 65536, n \div 65536>>

IsU32(w) == w[2] < 65536

\* value * len, for value < 2^31 and len < 2^8
WideMul(value, len) ==
    LET low == (value % 65536) * len
    IN <<low % 65536, (value \div 65536) * len + low \div 65536>>

WideAdd(w, len) ==
    LET low == w[1] + len IN <<low % 65536, w[2] + low \div 65536>>

\* the low 32 bits
Wrap32(w) == <<w[1], w[2] % 65536>>

\* get_str_type_serial on a string of any chars, in u32 arithmetic: with
\* overflow checks an overflowing `*` or `+` panics, without them it wraps.
\* The sum of the loop stays below 2^31 for the strings of the model.
get_str_type_serial_u32(ty, overflow_checks) ==
    LET value == SerialSum(ty, 1)
        len == str_len(ty)
        product == WideMul(value, len)
        total == WideAdd(Wrap32(product), len)
    IN IF overflow_checks /\ (~IsU32(product) \/ ~IsU32(total))
       THEN [panic |-> TRUE]
       ELSE [panic |-> FALSE, serial |-> Wrap32(total)]

RawStr == <<114, 97, 119>>

BooleanStr == <<98, 111, 111, 108, 101, 97, 110>>

Int64Str == <<105, 110, 116, 54, 52>>

FloatStr == <<102, 108, 111, 97, 116>>

DoubleStr == <<100, 111, 117, 98, 108, 101>>

StringStr == <<115, 116, 114, 105, 110, 103>>

ArraySuffix == <<91, 93>>

RAW_TYPE_SERIAL == const_get_data_type_serial(RawStr)

BOOLEAN_TYPE_SERIAL == const_get_data_type_serial(BooleanStr)

INT_TYPE_SERIAL == const_get_data_type_serial(Int64Str)

FLOAT_TYPE_SERIAL == const_get_data_type_serial(FloatStr)

DOUBLE_TYPE_SERIAL == const_get_data_type_serial(DoubleStr)

STRING_TYPE_SERIAL == const_get_data_type_serial(StringStr)

BOOLEAN_ARRAY_TYPE_SERIAL == const_get_data_type_serial(BooleanStr \o ArraySuffix)

\* an int64[] constant computed from the name of int64
INT_ARRAY_TYPE_SERIAL_of_int64 == const_get_data_type_serial(Int64Str)

INT_ARRAY_TYPE_SERIAL == const_get_data_type_serial(Int64Str \o ArraySuffix)

FLOAT_ARRAY_TYPE_SERIAL == const_get_data_type_serial(FloatStr \o ArraySuffix)

DOUBLE_ARRAY_TYPE_SERIAL == const_get_data_type_serial(DoubleStr \o ArraySuffix)

STRING_ARRAY_TYPE_SERIAL == const_get_data_type_serial(StringStr \o ArraySuffix)

SUPPORTED_TYPES_SERIALS ==
    { RAW_TYPE_SERIAL, BOOLEAN_TYPE_SERIAL, INT_TYPE_SERIAL, FLOAT_TYPE_SERIAL,
      DOUBLE_TYPE_SERIAL, STRING_TYPE_SERIAL, BOOLEAN_ARRAY_TYPE_SERIAL,
      INT_ARRAY_TYPE_SERIAL, FLOAT_ARRAY_TYPE_SERIAL, DOUBLE_ARRAY_TYPE_SERIAL,
      STRING_ARRAY_TYPE_SERIAL }

\* ------------------------------------------------------------------------
\* proto/util.rs: RecordByteReader.  A reader is the slice of the bytes left;
\* the operators below are its checks, each consumer being SubSeq and Drop.

Drop(bytes, n) == SubSeq(bytes, n + 1, Len(bytes))

Take(bytes, n) == SubSeq(bytes, 1, n)

\* std::str::from_utf8 / String::from_utf8 succeed
Utf8Valid(bytes) == \A i \in 1..Len(bytes) : bytes[i] < 128

\* ------------------------------------------------------------------------
\* proto/records.rs: RecordElementBitfield

\* the bits that name no flag (bit 7) are cleared
from_bits_truncate(bits) == bits % 128

id_length(bits) == (bits % 4) + 1

payload_length(bits) == ((bits \div 4) % 4) + 1

timestamp_length(bits) == ((bits \div 16) % 8) + 1

total_length(bits) == id_length(bits) + payload_length(bits) + timestamp_length(bits)

saturating_sub(a, b) == IF a >= b THEN a - b ELSE 0

\* a create that would put the payload width in bits 0-1 and the id width in
\* bits 2-3
RecordElementSizes_create_payload_first(timestamp, id, payload) ==
    LET wrapped_timestamp == shrink(UInt_from_u64(timestamp))
        wrapped_id == shrink(UInt_from_u32(id))
        wrapped_payload == shrink(UInt_from_u32(payload))
        bit_field == from_bits_truncate(
            (saturating_sub(get_byte_count(wrapped_payload), 1) % 4)
            + (saturating_sub(get_byte_count(wrapped_id), 1) % 4) * 4
            + (saturating_sub(get_byte_count(wrapped_timestamp), 1) % 8) * 16)
    IN [bit_field |-> bit_field, timestamp |-> wrapped_timestamp,
        id |-> wrapped_id, payload |-> wrapped_payload]

\* RecordElementSizes::create(timestamp, id, payload)
RecordElementSizes_create(timestamp, id, payload) ==
    LET wrapped_timestamp == shrink(UInt_from_u64(timestamp))
        wrapped_id == shrink(UInt_from_u32(id))
        wrapped_payload == shrink(UInt_from_u32(payload))
        bit_field == from_bits_truncate(
            (saturating_sub(get_byte_count(wrapped_id), 1) % 4)
            + (saturating_sub(get_byte_count(wrapped_payload), 1) % 4) * 4
            + (saturating_sub(get_byte_count(wrapped_timestamp), 1) % 8) * 16)
    IN [bit_field |-> bit_field, timestamp |-> wrapped_timestamp,
        id |-> wrapped_id, payload |-> wrapped_payload]

\* ------------------------------------------------------------------------
\* proto/records.rs: DataRecord.  A data record is [t |-> variant, v |-> value].

RECURSIVE Concat(_)
\* the elements of a sequence of byte slices, one after the other
Concat(ss) == IF ss = <<>> THEN <<>> ELSE Head(ss) \o Concat(Tail(ss))

RECURSIVE SumLen(_)
\* size after the loop of binary_payload_size over a string array
SumLen(ss) == IF ss = <<>> THEN 0 ELSE (4 + Len(Head(ss))) + SumLen(Tail(ss))

DataRecord_get_data_type(self) ==
    CASE self.t = "Raw" -> RawStr
      [] self.t = "Boolean" -> BooleanStr
      [] self.t = "Integer" -> Int64Str
      [] self.t = "Float" -> FloatStr
      [] self.t = "Double" -> DoubleStr
      [] self.t = "String" -> StringStr
      [] self.t = "BooleanArray" -> BooleanStr \o ArraySuffix
      [] self.t = "IntegerArray" -> Int64Str \o ArraySuffix
      [] self.t = "FloatArray" -> FloatStr \o ArraySuffix
      [] self.t = "DoubleArray" -> DoubleStr \o ArraySuffix
      [] self.t = "StringArray" -> StringStr \o ArraySuffix

matches_type(self, e_type) == e_type = DataRecord_get_data_type(self)

\* DataRecord::binary_payload_size; None (a size above u32::MAX) is out of
\* the model's reach
binary_payload_size(self) ==
    CASE self.t = "Raw" -> Len(self.v)
      [] self.t = "Boolean" -> 1
      [] self.t = "Integer" -> 8
      [] self.t = "Float" -> 4
      [] self.t = "Double" -> 8
      [] self.t = "String" -> Len(self.v)
      [] self.t = "BooleanArray" -> Len(self.v) * 1
      [] self.t = "IntegerArray" -> Len(self.v) * 8
      [] self.t = "FloatArray" -> Len(self.v) * 4
      [] self.t = "DoubleArray" -> Len(self.v) * 8
      [] self.t = "StringArray" -> SumLen(self.v)

\* u8::from(bool)
u8_from_bool(b) == IF b THEN 1 ELSE 0

\* the bytes the match of DataRecord::write_to writes after the header
DataPayload(self) ==
    CASE self.t = "Raw" -> self.v
      [] self.t = "Boolean" -> <<u8_from_bool(self.v)>>
      [] self.t = "Integer" -> self.v
      [] self.t = "Float" -> self.v
      [] self.t = "Double" -> self.v
      [] self.t = "String" -> self.v
      [] self.t = "BooleanArray" -> [i \in 1..Len(self.v) |-> u8_from_bool(self.v[i])]
      [] self.t = "IntegerArray" -> Concat(self.v)
      [] self.t = "FloatArray" -> Concat(self.v)
      [] self.t = "DoubleArray" -> Concat(self.v)
      [] self.t = "StringArray" ->
            Concat([i \in 1..Len(self.v) |->
                        to_le_bytes(Len(self.v[i]), 4) \o self.v[i]])

\* DataRecord::write_to into a buffer that takes every byte
DataRecord_write_to(self, timestamp, id) ==
    LET payload_size == binary_payload_size(self)
        element_sizes == RecordElementSizes_create(timestamp, id, payload_size)
    IN <<element_sizes.bit_field>>
       \o as_binary(element_sizes.id)
       \o as_binary(element_sizes.payload)
       \o as_binary(element_sizes.timestamp)
       \o DataPayload(self)

RECURSIVE FixedArray(_, _)
\* while reader.bytes_left() >= w { push(reader.take(w)) }
FixedArray(bytes, w) ==
    IF Len(bytes) >= w THEN <<Take(bytes, w)>> \o FixedArray(Drop(bytes, w), w)
    ELSE <<>>

RECURSIVE StringArrayLoop(_, _)
\* the loop of the STRING_ARRAY_TYPE_SERIAL arm
StringArrayLoop(bytes, strings) ==
    IF Len(bytes) >= 4
    THEN LET len == from_le_bytes(Take(bytes, 4))
             rest == Drop(bytes, 4)
         IN IF Len(rest) < len THEN Err("RecordReaderOutOfBounds")
            ELSE IF ~Utf8Valid(Take(rest, len)) THEN Err("Utf8")
            ELSE StringArrayLoop(Drop(rest, len), Append(strings, Take(rest, len)))
    ELSE Ok([t |-> "StringArray", v |-> strings])

from_binary_inner(bytes, type_serial) ==
    IF type_serial = DOUBLE_TYPE_SERIAL
    THEN IF Len(bytes) < 8 THEN Err("RecordReaderOutOfBounds")
         ELSE Ok([t |-> "Double", v |-> Take(bytes, 8)])
    ELSE IF type_serial = STRING_TYPE_SERIAL
    THEN IF ~Utf8Valid(bytes) THEN Err("Utf8")
         ELSE Ok([t |-> "String", v |-> bytes])
    ELSE IF type_serial = RAW_TYPE_SERIAL
    THEN Ok([t |-> "Raw", v |-> bytes])
    ELSE IF type_serial = BOOLEAN_TYPE_SERIAL
    THEN IF Len(bytes) < 1 THEN Err("RecordReaderOutOfBounds")
         ELSE Ok([t |-> "Boolean", v |-> bytes[1] # 0])
    ELSE IF type_serial = DOUBLE_ARRAY_TYPE_SERIAL
    THEN Ok([t |-> "DoubleArray", v |-> FixedArray(bytes, 8)])
    ELSE IF type_serial = INT_TYPE_SERIAL
    THEN IF Len(bytes) < 8 THEN Err("RecordReaderOutOfBounds")
         ELSE Ok([t |-> "Integer", v |-> Take(bytes, 8)])
    ELSE IF type_serial = FLOAT_TYPE_SERIAL
    THEN IF Len(bytes) < 4 THEN Err("RecordReaderOutOfBounds")
         ELSE Ok([t |-> "Float", v |-> Take(bytes, 4)])
    ELSE IF type_serial = BOOLEAN_ARRAY_TYPE_SERIAL
    THEN Ok([t |-> "BooleanArray", v |-> [i \in 1..Len(bytes) |-> bytes[i] # 0]])
    ELSE IF type_serial = INT_ARRAY_TYPE_SERIAL
    THEN Ok([t |-> "IntegerArray", v |-> FixedArray(bytes, 8)])
    ELSE IF type_serial = FLOAT_ARRAY_TYPE_SERIAL
    THEN Ok([t |-> "FloatArray", v |-> FixedArray(bytes, 4)])
    ELSE IF type_serial = STRING_ARRAY_TYPE_SERIAL
    THEN StringArrayLoop(bytes, <<>>)
    ELSE Err("RecordType")

DataRecord_from_binary(bytes, type_serial) ==
    IF bytes = <<>> THEN Err("RecordReaderOutOfBounds")
    ELSE from_binary_inner(bytes, type_serial)

\* ------------------------------------------------------------------------
\* proto/records.rs: ControlRecord.  A control record is
\* [c |-> "Start", name, entry_type, metadata], [c |-> "Finish"] or
\* [c |-> "Metadata", metadata].

Start(name, entry_type, entry_metadata) ==
    [c |-> "Start", name |-> name, entry_type |-> entry_type,
     metadata |-> entry_metadata]

Finish == [c |-> "Finish"]

Metadata(entry_metadata) == [c |-> "Metadata", metadata |-> entry_metadata]

\* the payload length ControlRecord::write_to declares in the frame
ControlPayloadLen(self) ==
    CASE self.c = "Start" ->
            17 + Len(self.name) + Len(self.entry_type) + Len(self.metadata)
      [] self.c = "Finish" -> 5
      [] self.c = "Metadata" -> 9 + Len(self.metadata)

\* the bytes ControlRecord::write_to writes after the frame header
ControlPayload(self, id) ==
    CASE self.c = "Start" ->
            <<0>> \o to_le_bytes(id, 4)
            \o to_le_bytes(Len(self.name), 4) \o self.name
            \o to_le_bytes(Len(self.entry_type), 4) \o self.entry_type
            \o to_le_bytes(Len(self.metadata), 4) \o self.metadata
      [] self.c = "Finish" -> <<1>> \o to_le_bytes(id, 4)
      [] self.c = "Metadata" ->
            <<2>> \o to_le_bytes(Len(self.metadata), 4) \o to_le_bytes(id, 4)

\* ControlRecord::write_to into a buffer that takes every byte
ControlRecord_write_to(self, timestamp, id) ==
    LET payload_len == ControlPayloadLen(self)
        element_sizes == RecordElementSizes_create(timestamp, 0, payload_len)
    IN <<element_sizes.bit_field>>
       \o <<0>>
       \o as_binary(element_sizes.payload)
       \o as_binary(element_sizes.timestamp)
       \o ControlPayload(self, id)

\* the Start arm of ControlRecord::from_binary, after the entry id
StartFromBinary(bytes, entry_id) ==
    IF Len(bytes) < 4 THEN Err("RecordReaderOutOfBounds")
    ELSE
    LET name_len == from_le_bytes(Take(bytes, 4))
        r1 == Drop(bytes, 4)
    IN IF Len(r1) < name_len THEN Err("RecordReaderOutOfBounds")
       ELSE IF ~Utf8Valid(Take(r1, name_len)) THEN Err("RecordReaderOutOfBounds")
       ELSE
       LET name == Take(r1, name_len)
           r2 == Drop(r1, name_len)
       IN IF Len(r2) < 4 THEN Err("RecordReaderOutOfBounds")
          ELSE
          LET type_len == from_le_bytes(Take(r2, 4))
              r3 == Drop(r2, 4)
          IN IF Len(r3) < type_len THEN Err("RecordReaderOutOfBounds")
             ELSE IF ~Utf8Valid(Take(r3, type_len)) THEN Err("RecordReaderOutOfBounds")
             ELSE
             LET entry_type == Take(r3, type_len)
                 r4 == Drop(r3, type_len)
             IN IF Len(r4) < 4 THEN Err("RecordReaderOutOfBounds")
                ELSE
                LET metadata_len == from_le_bytes(Take(r4, 4))
                    r5 == Drop(r4, 4)
                IN IF Len(r5) < metadata_len THEN Err("RecordReaderOutOfBounds")
                   ELSE IF ~Utf8Valid(Take(r5, metadata_len))
                   THEN Err("RecordReaderOutOfBounds")
                   ELSE Ok([rec |-> Start(name, entry_type, Take(r5, metadata_len)),
                            id |-> entry_id])

\* the Metadata arm of ControlRecord::from_binary, after the entry id
MetadataFromBinary(bytes, entry_id) ==
    IF Len(bytes) < 4 THEN Err("RecordReaderOutOfBounds")
    ELSE
    LET metadata_len == from_le_bytes(Take(bytes, 4))
        r1 == Drop(bytes, 4)
    IN IF Len(r1) # metadata_len THEN Err("RecordReaderOutOfBounds")
       ELSE IF ~Utf8Valid(r1) THEN Err("RecordReaderOutOfBounds")
       ELSE Ok([rec |-> Metadata(r1), id |-> entry_id])

ControlRecord_from_binary(bytes) ==
    IF Len(bytes) < 1 THEN Err("RecordReaderOutOfBounds")
    ELSE IF Len(bytes) < 5 THEN Err("RecordReaderOutOfBounds")
    ELSE
    LET control_type == bytes[1]
        entry_id == from_le_bytes(SubSeq(bytes, 2, 5))
        rest == Drop(bytes, 5)
    IN IF control_type = 0 THEN StartFromBinary(rest, entry_id)
       ELSE IF control_type = 1 THEN Ok([rec |-> Finish, id |-> entry_id])
       ELSE IF control_type = 2 THEN MetadataFromBinary(rest, entry_id)
       ELSE Err("RecordDeserialize")

\* ------------------------------------------------------------------------
\* proto/records.rs: Record.  A record is
\* [kind |-> "Data" or "Control", rec, timestamp, id].  A type map takes an
\* entry id to its type string; the serial the code keeps is computed from
\* it where the code reads it.

DataOf(rec, timestamp, id) ==
    [kind |-> "Data", rec |-> rec, timestamp |-> timestamp, id |-> id]

ControlOf(rec, timestamp, id) ==
    [kind |-> "Control", rec |-> rec, timestamp |-> timestamp, id |-> id]

Record_write_to(self) ==
    IF self.kind = "Control"
    THEN ControlRecord_write_to(self.rec, self.timestamp, self.id)
    ELSE DataRecord_write_to(self.rec, self.timestamp, self.id)

Record_from_binary(bytes, type_map) ==
    LET bit_field == IF bytes = <<>> THEN 0 ELSE bytes[1]
        r0 == IF bytes = <<>> THEN <<>> ELSE Tail(bytes)
        idl == (bit_field % 4) + 1
        pll == ((bit_field \div 4) % 4) + 1
        tsl == ((bit_field \div 16) % 8) + 1
    IN IF Len(r0) < idl THEN Err("RecordReaderOutOfBounds")
       ELSE
       LET id == Deref(UInt_from_binary(Take(r0, idl)).val)
           r1 == Drop(r0, idl)
       IN IF Len(r1) < pll THEN Err("RecordReaderOutOfBounds")
          ELSE
          LET r2 == Drop(r1, pll)
          IN IF Len(r2) < tsl THEN Err("RecordReaderOutOfBounds")
             ELSE
             LET timestamp == UInt_from_binary(Take(r2, tsl)).val.value
                 is_control == (id = 0)
                 mapped == IF id \in DOMAIN type_map
                           THEN get_str_type_serial(type_map[id])
                           ELSE RAW_TYPE_SERIAL
                 type_serial == IF ~is_control /\ mapped \notin SUPPORTED_TYPES_SERIALS
                                THEN RAW_TYPE_SERIAL ELSE mapped
                 record_payload == Drop(r2, tsl)
             IN IF is_control
                THEN LET control_record == ControlRecord_from_binary(record_payload)
                     IN IF control_record.ok
                        THEN Ok(ControlOf(control_record.val.rec, timestamp,
                                          control_record.val.id))
                        ELSE Err("RecordDeserialize")
                ELSE LET data_record == DataRecord_from_binary(record_payload, type_serial)
                     IN IF data_record.ok
                        THEN Ok(DataOf(data_record.val, timestamp, id))
                        ELSE Err("RecordDeserialize")

RECURSIVE chunk_loop_keeping_fragment(_, _)
\* a loop that would hand out the fragment left at the end as a chunk
chunk_loop_keeping_fragment(bytes, chunks) ==
    IF bytes = <<>> THEN Ok(chunks)
    ELSE
    LET bit_field == from_bits_truncate(bytes[1])
    IN IF Len(bytes) < total_length(bit_field) THEN Ok(Append(chunks, bytes))
       ELSE IF Len(bytes) < 1 + total_length(bit_field)
       THEN Err("RecordReaderOutOfBounds")
       ELSE
       LET header == Take(bytes, 1 + total_length(bit_field))
           payload_size == UInt_from_binary(
               SubSeq(header, 2 + id_length(bit_field),
                      1 + id_length(bit_field) + payload_length(bit_field)))
           total_size == 1 + total_length(bit_field) + Deref(payload_size.val)
       IN IF Len(bytes) < total_size THEN Err("RecordReaderOutOfBounds")
          ELSE chunk_loop_keeping_fragment(Drop(bytes, total_size),
                                           Append(chunks, Take(bytes, total_size)))

RECURSIVE chunk_loop(_, _)
\* the while loop of chunk_by_record, `bytes` being what the reader has left
chunk_loop(bytes, chunks) ==
    IF bytes = <<>> THEN Ok(chunks)
    ELSE
    LET bit_field == from_bits_truncate(bytes[1])
    IN IF Len(bytes) < total_length(bit_field) THEN Ok(chunks)
       ELSE IF Len(bytes) < 1 + total_length(bit_field)
       THEN Err("RecordReaderOutOfBounds")
       ELSE
       LET header == Take(bytes, 1 + total_length(bit_field))
           payload_size == UInt_from_binary(
               SubSeq(header, 2 + id_length(bit_field),
                      1 + id_length(bit_field) + payload_length(bit_field)))
           total_size == 1 + total_length(bit_field) + Deref(payload_size.val)
       IN IF Len(bytes) < total_size THEN Err("RecordReaderOutOfBounds")
          ELSE chunk_loop(Drop(bytes, total_size),
                          Append(chunks, Take(bytes, total_size)))

chunk_by_record(bytes) == chunk_loop(bytes, <<>>)

\* type_map.insert(k, v)
MapInsert(map, k, v) == [x \in DOMAIN map \cup {k} |-> IF x = k THEN v ELSE map[x]]

EmptyMap == [x \in {} |-> 0]

\* a loop body that would keep the type of the first Start of an entry
parse_chunk_keeping_first(chunk, st) ==
    LET record == Record_from_binary(chunk, st.type_map)
    IN IF record.ok
       THEN [records |-> Append(st.records, record.val),
             type_map |-> IF /\ record.val.kind = "Control"
                             /\ record.val.rec.c = "Start"
                             /\ record.val.id \notin DOMAIN st.type_map
                          THEN MapInsert(st.type_map, record.val.id,
                                         record.val.rec.entry_type)
                          ELSE st.type_map]
       ELSE st

\* what the body of the for loop of parse_records does with one chunk
parse_chunk(chunk, st) ==
    LET record == Record_from_binary(chunk, st.type_map)
    IN IF record.ok
       THEN [records |-> Append(st.records, record.val),
             type_map |-> IF record.val.kind = "Control" /\ record.val.rec.c = "Start"
                          THEN MapInsert(st.type_map, record.val.id,
                                         record.val.rec.entry_type)
                          ELSE st.type_map]
       ELSE st

RECURSIVE parse_loop_until_error(_, _)
\* a for loop that a record failing to decode would end
parse_loop_until_error(chunks, st) ==
    IF chunks = <<>> THEN st
    ELSE IF ~Record_from_binary(Head(chunks), st.type_map).ok THEN st
    ELSE parse_loop_until_error(Tail(chunks), parse_chunk(Head(chunks), st))

RECURSIVE parse_loop(_, _)
\* the for loop of parse_records over the chunks
parse_loop(chunks, st) ==
    IF chunks = <<>> THEN st
    ELSE parse_loop(Tail(chunks), parse_chunk(Head(chunks), st))

\* Ok([records, type_map]): the records returned and the type map as left
parse_records(bytes, type_map) ==
    LET chunks == chunk_by_record(bytes)
    IN IF ~chunks.ok THEN chunks
       ELSE Ok(parse_loop(chunks.val, [records |-> <<>>, type_map |-> type_map]))

\* ------------------------------------------------------------------------
\* frclib_core values, as far as the code looks into them: an FrcValue is
\* [t |-> variant, v |-> value]; a struct value carries its descriptor's type
\* string in `desc`.

Void == [t |-> "Void", v |-> <<>>]

\* IntoFrcValue for DataRecord
into_frc_value(self) ==
    CASE self.t = "Integer" -> [t |-> "Int", v |-> self.v]
      [] self.t = "IntegerArray" -> [t |-> "IntArray", v |-> self.v]
      [] OTHER -> [t |-> self.t, v |-> self.v]

\* From<FrcValue> for DataRecord
DataRecord_from(value) ==
    CASE value.t = "Int" -> [t |-> "Integer", v |-> value.v]
      [] value.t = "IntArray" -> [t |-> "IntegerArray", v |-> value.v]
      [] value.t \in {"Struct", "StructArray"} -> [t |-> "Raw", v |-> value.v]
      [] value.t = "Void" -> [t |-> "Raw", v |-> <<>>]
      [] OTHER -> [t |-> value.t, v |-> value.v]

\* TimestampedValue::new / FrcTimestampedValue::new
TimestampedValue(timestamp, value) == [timestamp |-> timestamp, value |-> value]

\* ------------------------------------------------------------------------
\* reader.rs: DataLogReader

WPILOG_MAGIC == <<87, 80, 73, 76, 79, 71>>

DefaultConfig == [require_magic |-> TRUE, required_version |-> Some(<<1, 0>>)]

NewEntryData == [values |-> <<>>, metadata |-> <<>>, type_str |-> <<>>]

Alive(start) == [alive |-> TRUE, start |-> start]

Dead(start, end) == [alive |-> FALSE, start |-> start, end |-> end]

IsAlive(entry_status, id) == id \in DOMAIN entry_status /\ entry_status[id].alive

\* DataLogReader::get_entry_data: the data map with an entry for id
get_entry_data(data, id) ==
    IF id \in DOMAIN data THEN data ELSE MapInsert(data, id, NewEntryData)

\* The state of a read in progress is
\* [keys, data, entry_types, entry_status]: the two maps of the reader and
\* the two maps local to read.

\* a Start arm that would take the Start of an entry that is Alive as well
IngestStart_of_alive_too(rs, record) ==
    LET data == get_entry_data(rs.data, record.id)
        e == data[record.id]
    IN [keys |-> MapInsert(rs.keys, record.rec.name, record.id),
        data |-> MapInsert(data, record.id,
            [values |-> e.values,
             type_str |-> Append(e.type_str,
                 TimestampedValue(record.timestamp, record.rec.entry_type)),
             metadata |-> Append(e.metadata,
                 TimestampedValue(record.timestamp, record.rec.metadata))]),
        entry_types |-> MapInsert(rs.entry_types, record.id, record.rec.entry_type),
        entry_status |-> MapInsert(rs.entry_status, record.id,
                                   Alive(record.timestamp))]

\* the ControlRecord::Start arm of the loop of read
IngestStart(rs, record) ==
    IF IsAlive(rs.entry_status, record.id) THEN rs
    ELSE LET data == get_entry_data(rs.data, record.id)
             e == data[record.id]
         IN [keys |-> MapInsert(rs.keys, record.rec.name, record.id),
             data |-> MapInsert(data, record.id,
                 [values |-> e.values,
                  type_str |-> Append(e.type_str,
                      TimestampedValue(record.timestamp, record.rec.entry_type)),
                  metadata |-> Append(e.metadata,
                      TimestampedValue(record.timestamp, record.rec.metadata))]),
             entry_types |-> MapInsert(rs.entry_types, record.id, record.rec.entry_type),
             entry_status |-> MapInsert(rs.entry_status, record.id,
                                        Alive(record.timestamp))]

\* the ControlRecord::Finish arm
IngestFinish(rs, record) ==
    IF IsAlive(rs.entry_status, record.id)
    THEN [rs EXCEPT !.entry_status =
             MapInsert(rs.entry_status, record.id,
                       Dead(rs.entry_status[record.id].start, record.timestamp))]
    ELSE rs

\* a Metadata arm that would not look at the entry's status
IngestMetadata_of_any(rs, record) ==
    LET data == get_entry_data(rs.data, record.id)
        e == data[record.id]
    IN [rs EXCEPT !.data = MapInsert(data, record.id,
           [e EXCEPT !.metadata =
               Append(e.metadata,
                      TimestampedValue(record.timestamp, record.rec.metadata))])]

\* the ControlRecord::Metadata arm
IngestMetadata(rs, record) ==
    IF IsAlive(rs.entry_status, record.id)
    THEN LET data == get_entry_data(rs.data, record.id)
             e == data[record.id]
         IN [rs EXCEPT !.data = MapInsert(data, record.id,
                [e EXCEPT !.metadata =
                    Append(e.metadata,
                           TimestampedValue(record.timestamp, record.rec.metadata))])]
    ELSE rs

\* the Record::Data arm; an Alive entry has its type in entry_types
IngestData(rs, record) ==
    IF IsAlive(rs.entry_status, record.id)
    THEN LET type_str == rs.entry_types[record.id]
         IN IF matches_type(record.rec, type_str) THEN rs
            ELSE LET data == get_entry_data(rs.data, record.id)
                     e == data[record.id]
                 IN [rs EXCEPT !.data = MapInsert(data, record.id,
                        [e EXCEPT !.values =
                            Append(e.values,
                                   TimestampedValue(record.timestamp,
                                                    into_frc_value(record.rec)))])]
    ELSE rs

\* the body of the for loop of read
IngestRecord(rs, record) ==
    IF record.kind = "Control"
    THEN CASE record.rec.c = "Start" -> IngestStart(rs, record)
           [] record.rec.c = "Finish" -> IngestFinish(rs, record)
           [] record.rec.c = "Metadata" -> IngestMetadata(rs, record)
    ELSE IngestData(rs, record)

RECURSIVE IngestAll(_, _)
IngestAll(rs, records) ==
    IF records = <<>> THEN rs
    ELSE IngestAll(IngestRecord(rs, Head(records)), Tail(records))

RECURSIVE InsertByKey(_, _)
\* x put behind the elements of the sorted seq whose timestamp is not greater
InsertByKey(seq, x) ==
    IF seq = <<>> THEN <<x>>
    ELSE IF U64Less(x.timestamp, Head(seq).timestamp) THEN <<x>> \o seq
    ELSE <<Head(seq)>> \o InsertByKey(Tail(seq), x)

RECURSIVE sort_by_key(_)
\* slice::sort_by_key(|v| v.timestamp): a stable sort
sort_by_key(seq) ==
    IF seq = <<>> THEN <<>>
    ELSE InsertByKey(sort_by_key(SubSeq(seq, 1, Len(seq) - 1)), seq[Len(seq)])

\* a sort_data that would sort the value timelines only
sort_data_values_only(data) ==
    [id \in DOMAIN data |->
        [values |-> sort_by_key(data[id].values),
         metadata |-> data[id].metadata,
         type_str |-> data[id].type_str]]

\* DataLogReader::sort_data
sort_data(data) ==
    [id \in DOMAIN data |->
        [values |-> sort_by_key(data[id].values),
         metadata |-> sort_by_key(data[id].metadata),
         type_str |-> sort_by_key(data[id].type_str)]]

\* a read that would not compare the magic
read_header_of_any_magic(file, config) ==
    IF Len(file) < 8 THEN Err("Io")
    ELSE
    LET format_version == <<file[8], file[7]>>
    IN IF config.required_version.some /\ config.required_version.val # format_version
       THEN Err("VersionMismatch")
       ELSE IF Len(file) < 12 THEN Err("Io")
       ELSE
       LET metadata_len == from_le_bytes(SubSeq(file, 9, 12))
       IN IF Len(file) < 12 + metadata_len THEN Err("Io")
          ELSE
          LET metadata == SubSeq(file, 13, 12 + metadata_len)
          IN Ok([format_version |-> format_version,
                 header_metadata |-> IF Utf8Valid(metadata) THEN metadata ELSE <<>>,
                 file_buffer |-> Drop(file, 12 + metadata_len)])

\* read up to the records: the magic, the version and the header metadata.
\* read_exact and read_u32 fail with Io on a file that ends early.
read_header(file, config) ==
    IF Len(file) < 6 THEN Err("Io")
    ELSE IF config.require_magic /\ Take(file, 6) # WPILOG_MAGIC
    THEN Err("MagicMismatch")
    ELSE IF Len(file) < 8 THEN Err("Io")
    ELSE
    LET format_version == <<file[8], file[7]>>
    IN IF config.required_version.some /\ config.required_version.val # format_version
       THEN Err("VersionMismatch")
       ELSE IF Len(file) < 12 THEN Err("Io")
       ELSE
       LET metadata_len == from_le_bytes(SubSeq(file, 9, 12))
       IN IF Len(file) < 12 + metadata_len THEN Err("Io")
          ELSE
          LET metadata == SubSeq(file, 13, 12 + metadata_len)
          IN Ok([format_version |-> format_version,
                 header_metadata |-> IF Utf8Valid(metadata) THEN metadata ELSE <<>>,
                 file_buffer |-> Drop(file, 12 + metadata_len)])

EmptyRead ==
    [keys |-> EmptyMap, data |-> EmptyMap, entry_types |-> EmptyMap,
     entry_status |-> EmptyMap]

\* DataLogReader::try_new on the bytes of the file: read, then sort_data.
\* Ok([format_version, header_metadata, keys, data])
try_new(file, config) ==
    LET header == read_header(file, config)
    IN IF ~header.ok THEN header
       ELSE
       LET parsed == parse_records(header.val.file_buffer, EmptyMap)
       IN IF ~parsed.ok THEN parsed
          ELSE
          LET rs == IngestAll([EmptyRead EXCEPT !.entry_types = parsed.val.type_map],
                              parsed.val.records)
          IN Ok([format_version |-> header.val.format_version,
                 header_metadata |-> header.val.header_metadata,
                 keys |-> rs.keys,
                 data |-> sort_data(rs.data)])

\* DataLogReader::read_entry
read_entry(reader, entry_key) ==
    IF entry_key \in DOMAIN reader.keys /\ reader.keys[entry_key] \in DOMAIN reader.data
    THEN reader.data[reader.keys[entry_key]].values
    ELSE <<>>

\* a read_entry_after that would keep the values at the timestamp as well
read_entry_from(reader, entry_key, timestamp) ==
    IF entry_key \in DOMAIN reader.keys /\ reader.keys[entry_key] \in DOMAIN reader.data
    THEN SelectSeq(reader.data[reader.keys[entry_key]].values,
                   LAMBDA value : U64Leq(timestamp, value.timestamp))
    ELSE <<>>

\* DataLogReader::read_entry_after
read_entry_after(reader, entry_key, timestamp) ==
    IF entry_key \in DOMAIN reader.keys /\ reader.keys[entry_key] \in DOMAIN reader.data
    THEN SelectSeq(reader.data[reader.keys[entry_key]].values,
                   LAMBDA value : U64Less(timestamp, value.timestamp))
    ELSE <<>>

\* DataLogReader::read_entry_before
read_entry_before(reader, entry_key, timestamp) ==
    IF entry_key \in DOMAIN reader.keys /\ reader.keys[entry_key] \in DOMAIN reader.data
    THEN SelectSeq(reader.data[reader.keys[entry_key]].values,
                   LAMBDA value : U64Less(value.timestamp, timestamp))
    ELSE <<>>

\* DataLogReader::read_entry_between
read_entry_between(reader, entry_key, start, end) ==
    IF entry_key \in DOMAIN reader.keys /\ reader.keys[entry_key] \in DOMAIN reader.data
    THEN SelectSeq(reader.data[reader.keys[entry_key]].values,
                   LAMBDA value : U64Leq(start, value.timestamp) /\ U64Leq(value.timestamp, end))
    ELSE <<>>

\* ------------------------------------------------------------------------
\* reader.rs: EntryFilterReader.  A predicate is the set of the strings it
\* accepts.

EntryFilterReader_new(data) ==
    [data |-> data, before |-> None, after |-> None,
     required_metadata_predicate |-> None, required_type_predicate |-> None]

\* DataLogReader::create_entry_filter
create_entry_filter(reader, entry_key) ==
    IF entry_key \in DOMAIN reader.keys /\ reader.keys[entry_key] \in DOMAIN reader.data
    THEN Some(EntryFilterReader_new(reader.data[reader.keys[entry_key]]))
    ELSE None

\* a search from the front, which stops at the first such element
front_find(timeline, timestamp) ==
    LET found == {i \in DOMAIN timeline : U64Leq(timeline[i].timestamp, timestamp)}
    IN IF found = {} THEN None
       ELSE Some(timeline[CHOOSE i \in found : \A j \in found : i <= j].value)

\* the element iter().rev().find(|value| value.timestamp <= timestamp) stops
\* at: the last of the timeline that is not after the timestamp
rev_find(timeline, timestamp) ==
    LET found == {i \in DOMAIN timeline : U64Leq(timeline[i].timestamp, timestamp)}
    IN IF found = {} THEN None
       ELSE Some(timeline[CHOOSE i \in found : \A j \in found : j <= i].value)

get_metadata_at_timestamp(self, timestamp) == rev_find(self.data.metadata, timestamp)

get_type_at_timestamp(self, timestamp) == rev_find(self.data.type_str, timestamp)

\* The rolling type of structify_all_data is
\* [type_str, expiration_timestamp]: String::new() and 0 at the first value
\* of an entry.
NoTypeYet == [type_str |-> <<>>, expiration_timestamp |-> U64Of(0)]

RECURSIVE rev_scan(_, _, _, _)
\* the loop over type_history.iter().rev(), at the element of index i
rev_scan(type_history, i, timestamp, rolling) ==
    IF i = 0 THEN rolling
    ELSE IF U64Leq(type_history[i].timestamp, timestamp)
    THEN [rolling EXCEPT !.type_str = type_history[i].value]
    ELSE rev_scan(type_history, i - 1, timestamp,
                  [rolling EXCEPT !.expiration_timestamp = type_history[i].timestamp])

\* an update that would scan again only after the expiration timestamp
update_type_str_after_expiration(timestamp, type_history, rolling) ==
    IF U64Less(rolling.expiration_timestamp, timestamp)
    THEN rev_scan(type_history, Len(type_history), timestamp, rolling)
    ELSE rolling

\* update_type_str_for_timestamp, its two &mut arguments as one record
update_type_str_for_timestamp(timestamp, type_history, rolling) ==
    IF U64Leq(rolling.expiration_timestamp, timestamp)
    THEN rev_scan(type_history, Len(type_history), timestamp, rolling)
    ELSE rolling

\* FrcValue::Struct of the descriptor registered for type_str, count 1
StructValue(type_str, bytes) ==
    [t |-> "Struct", v |-> bytes, desc |-> type_str, count |-> 1]

RECURSIVE structify_values(_, _, _, _)
\* the loop over data.values; `registered` holds the type strings for which
\* FrcStructDescDB::get returns a descriptor
structify_values(values, type_history, rolling, registered) ==
    IF values = <<>> THEN <<>>
    ELSE LET value == Head(values)
         IN IF value.value.t = "Raw"
            THEN LET updated == update_type_str_for_timestamp(value.timestamp,
                                                              type_history, rolling)
                 IN <<IF updated.type_str \in registered
                      THEN TimestampedValue(value.timestamp,
                                            StructValue(updated.type_str, value.value.v))
                      ELSE value>>
                    \o structify_values(Tail(values), type_history, updated, registered)
            ELSE <<value>> \o structify_values(Tail(values), type_history, rolling,
                                               registered)

\* DataLogReader::structify_all_data
structify_all_data(self, registered) ==
    [self EXCEPT !.data =
        [id \in DOMAIN self.data |->
            [self.data[id] EXCEPT !.values =
                structify_values(self.data[id].values, self.data[id].type_str,
                                 NoTypeYet, registered)]]]

\* the closure of the filter in collect
collect_keeps(self, value) ==
    IF self.before.some /\ U64Less(self.before.val, value.timestamp) THEN FALSE
    ELSE IF self.after.some /\ U64Less(value.timestamp, self.after.val) THEN FALSE
    ELSE IF /\ self.required_metadata_predicate.some
            /\ LET metadata == get_metadata_at_timestamp(self, value.timestamp)
               IN IF metadata.some
                  THEN metadata.val \notin self.required_metadata_predicate.val
                  ELSE TRUE
    THEN FALSE
    ELSE IF /\ self.required_type_predicate.some
            /\ LET value_type == get_type_at_timestamp(self, value.timestamp)
               IN IF value_type.some
                  THEN value_type.val \notin self.required_type_predicate.val
                  ELSE TRUE
    THEN FALSE
    ELSE TRUE

\* EntryFilterReader::collect
collect(self) == SelectSeq(self.data.values, LAMBDA value : collect_keeps(self, value))

\* ------------------------------------------------------------------------
\* proto/entries.rs over FrcType.  An FrcType is [t |-> variant, type_str],
\* type_str being the descriptor's type string of a struct type and empty
\* otherwise.

PrimType(t) == [t |-> t, type_str |-> <<>>]

StructType(type_str) == [t |-> "Struct", type_str |-> type_str]

VoidType == PrimType("Void")

\* FrcValue::get_type
get_type(value) ==
    IF value.t \in {"Struct", "StructArray"}
    THEN [t |-> value.t, type_str |-> value.desc]
    ELSE PrimType(value.t)

\* get_data_type(ty): Some(type string), None for Void
get_data_type(ty) ==
    CASE ty.t = "Raw" -> Some(RawStr)
      [] ty.t = "Boolean" -> Some(BooleanStr)
      [] ty.t = "Int" -> Some(Int64Str)
      [] ty.t = "Float" -> Some(FloatStr)
      [] ty.t = "Double" -> Some(DoubleStr)
      [] ty.t = "String" -> Some(StringStr)
      [] ty.t = "BooleanArray" -> Some(BooleanStr \o ArraySuffix)
      [] ty.t = "IntArray" -> Some(Int64Str \o ArraySuffix)
      [] ty.t = "FloatArray" -> Some(FloatStr \o ArraySuffix)
      [] ty.t = "DoubleArray" -> Some(DoubleStr \o ArraySuffix)
      [] ty.t = "StringArray" -> Some(StringStr \o ArraySuffix)
      [] ty.t \in {"Struct", "StructArray"} -> Some(ty.type_str)
      [] ty.t = "Void" -> None

\* u32::MAX, which the serials of the model's type strings stay far below
INVALID == -1

get_data_type_serial(ty) ==
    CASE ty.t = "Raw" -> RAW_TYPE_SERIAL
      [] ty.t = "Boolean" -> BOOLEAN_TYPE_SERIAL
      [] ty.t = "Int" -> INT_TYPE_SERIAL
      [] ty.t = "Float" -> FLOAT_TYPE_SERIAL
      [] ty.t = "Double" -> DOUBLE_TYPE_SERIAL
      [] ty.t = "String" -> STRING_TYPE_SERIAL
      [] ty.t = "BooleanArray" -> BOOLEAN_ARRAY_TYPE_SERIAL
      [] ty.t = "IntArray" -> INT_ARRAY_TYPE_SERIAL
      [] ty.t = "FloatArray" -> FLOAT_ARRAY_TYPE_SERIAL
      [] ty.t = "DoubleArray" -> DOUBLE_ARRAY_TYPE_SERIAL
      [] ty.t = "StringArray" -> STRING_ARRAY_TYPE_SERIAL
      [] ty.t \in {"Struct", "StructArray"} ->
            IF get_str_type_serial(ty.type_str) = 0 THEN INVALID
            ELSE get_str_type_serial(ty.type_str)
      [] ty.t = "Void" -> INVALID

\* ------------------------------------------------------------------------
\* writer.rs: DataLogWriter.  A writer is
\* [writer, entry_data, entry_id_map, highest_entry_id, datalog_id]; `writer`
\* is the bytes the BufWriter has taken, in order.  An operation is a
\* function of the writer, its arguments, the readings of now() and the
\* outcome `io` of its output: IoOk, or IoFail(n), the output failing after n
\* bytes of the record.  It yields [w |-> the writer after, res |-> result].

\* version bytes in the order the Reader's pair has them
WPILOG_VERSION_major_first == <<1, 0>>

WPILOG_VERSION == <<0, 1>>

IoOk == [ok |-> TRUE, n |-> 0]

IoFail(n) == [ok |-> FALSE, n |-> n]

\* an output that would take the bytes in front of those it holds
Emit_in_front(self, bytes, io, val) ==
    IF io.ok
    THEN [w |-> [self EXCEPT !.writer = bytes \o self.writer], res |-> Ok(val)]
    ELSE [w |-> [self EXCEPT !.writer = Take(bytes, io.n) \o self.writer],
          res |-> Err("Io")]

\* the output after writing `bytes` with outcome io, and the result
Emit(self, bytes, io, val) ==
    IF io.ok
    THEN [w |-> [self EXCEPT !.writer = self.writer \o bytes], res |-> Ok(val)]
    ELSE [w |-> [self EXCEPT !.writer = self.writer \o Take(bytes, io.n)],
          res |-> Err("Io")]

\* the T of a TypedEntryId<T>; an EntryId, which has none, carries Untyped
Untyped == [t |-> "untyped", type_str |-> <<>>]

EntryId(datalog_id, entry_id, ty) ==
    [datalog_id |-> datalog_id, entry_id |-> entry_id, ty |-> ty]

\* DataLogWriter::new with the log id fetched from DATALOG_INCREMENTER;
\* a string of the model is never too large
DataLogWriter_new(datalog_id, metadata, io) ==
    Emit([writer |-> <<>>, entry_data |-> <<>>, entry_id_map |-> EmptyMap,
          highest_entry_id |-> 0, datalog_id |-> datalog_id],
         WPILOG_MAGIC \o WPILOG_VERSION \o to_le_bytes(Len(metadata), 4) \o metadata,
         io, "writer")

\* entry_data.get(id as usize)
HasEntry(self, id) == id + 1 <= Len(self.entry_data)

\* an inner_write that would not compare the handle's log id with its own
inner_write_of_any_log(self, id, tv, check_type, io) ==
    IF tv.value = Void THEN [w |-> self, res |-> Ok("unit")]
    ELSE IF ~HasEntry(self, id.entry_id) THEN [w |-> self, res |-> Err("NoSuchEntry")]
    ELSE
    LET data == self.entry_data[id.entry_id + 1]
    IN IF ~data.lifestatus.alive THEN [w |-> self, res |-> Err("OutsideEntryLifetime")]
       ELSE IF check_type /\ data.prehashed_type # get_data_type_serial(get_type(tv.value))
       THEN [w |-> self, res |-> Err("EntryTypeMismatch")]
       ELSE Emit(self,
                 DataRecord_write_to(DataRecord_from(tv.value), tv.timestamp, id.entry_id),
                 io, "unit")

\* an inner_write that would not look at the entry's lifestatus
inner_write_to_dead(self, id, tv, check_type, io) ==
    IF tv.value = Void THEN [w |-> self, res |-> Ok("unit")]
    ELSE IF id.datalog_id # self.datalog_id
    THEN [w |-> self, res |-> Err("InvalidDataLog")]
    ELSE IF ~HasEntry(self, id.entry_id) THEN [w |-> self, res |-> Err("NoSuchEntry")]
    ELSE
    LET data == self.entry_data[id.entry_id + 1]
    IN IF check_type /\ data.prehashed_type # get_data_type_serial(get_type(tv.value))
       THEN [w |-> self, res |-> Err("EntryTypeMismatch")]
       ELSE Emit(self,
                 DataRecord_write_to(DataRecord_from(tv.value), tv.timestamp, id.entry_id),
                 io, "unit")

\* an inner_write that would check the handle's log id before the value
inner_write_log_id_first(self, id, tv, check_type, io) ==
    IF id.datalog_id # self.datalog_id
    THEN [w |-> self, res |-> Err("InvalidDataLog")]
    ELSE IF tv.value = Void THEN [w |-> self, res |-> Ok("unit")]
    ELSE IF ~HasEntry(self, id.entry_id) THEN [w |-> self, res |-> Err("NoSuchEntry")]
    ELSE
    LET data == self.entry_data[id.entry_id + 1]
    IN IF ~data.lifestatus.alive THEN [w |-> self, res |-> Err("OutsideEntryLifetime")]
       ELSE IF check_type /\ data.prehashed_type # get_data_type_serial(get_type(tv.value))
       THEN [w |-> self, res |-> Err("EntryTypeMismatch")]
       ELSE Emit(self,
                 DataRecord_write_to(DataRecord_from(tv.value), tv.timestamp, id.entry_id),
                 io, "unit")

\* an inner_write that would check the type on no path
inner_write_unchecked(self, id, tv, check_type, io) ==
    IF tv.value = Void THEN [w |-> self, res |-> Ok("unit")]
    ELSE IF id.datalog_id # self.datalog_id
    THEN [w |-> self, res |-> Err("InvalidDataLog")]
    ELSE IF ~HasEntry(self, id.entry_id) THEN [w |-> self, res |-> Err("NoSuchEntry")]
    ELSE
    LET data == self.entry_data[id.entry_id + 1]
    IN IF ~data.lifestatus.alive THEN [w |-> self, res |-> Err("OutsideEntryLifetime")]
       ELSE Emit(self,
                 DataRecord_write_to(DataRecord_from(tv.value), tv.timestamp, id.entry_id),
                 io, "unit")

inner_write(self, id, tv, check_type, io) ==
    IF tv.value = Void THEN [w |-> self, res |-> Ok("unit")]
    ELSE IF id.datalog_id # self.datalog_id
    THEN [w |-> self, res |-> Err("InvalidDataLog")]
    ELSE IF ~HasEntry(self, id.entry_id) THEN [w |-> self, res |-> Err("NoSuchEntry")]
    ELSE
    LET data == self.entry_data[id.entry_id + 1]
    IN IF ~data.lifestatus.alive THEN [w |-> self, res |-> Err("OutsideEntryLifetime")]
       ELSE IF check_type /\ data.prehashed_type # get_data_type_serial(get_type(tv.value))
       THEN [w |-> self, res |-> Err("EntryTypeMismatch")]
       ELSE Emit(self,
                 DataRecord_write_to(DataRecord_from(tv.value), tv.timestamp, id.entry_id),
                 io, "unit")

\* write: the value at now()
write(self, id, value, now, io) ==
    inner_write(self, id, TimestampedValue(now, value), FALSE, io)

write_timestamped(self, id, value, timestamp, io) ==
    inner_write(self, id, TimestampedValue(timestamp, value), FALSE, io)

write_dynamic(self, id, value, io) == inner_write(self, id, value, TRUE, io)

\* a get_entry_dynamic that would not look the key up
get_entry_dynamic_always_new(self, key, entry_type, metadata, now1, now2, io) ==
    IF entry_type = VoidType THEN [w |-> self, res |-> Err("RecordType")]
    ELSE
    LET id == self.highest_entry_id
        registered ==
            [self EXCEPT
                !.entry_id_map = MapInsert(self.entry_id_map, key, id),
                !.entry_data = Append(self.entry_data,
                    [key |-> key, entry_type |-> get_data_type(entry_type).val,
                     prehashed_type |-> get_data_type_serial(entry_type),
                     lifestatus |-> Alive(now1)]),
                !.highest_entry_id = self.highest_entry_id + 1]
        control_record ==
            Start(key, get_data_type(entry_type).val,
                  IF metadata.some THEN metadata.val ELSE <<>>)
    IN Emit(registered, ControlRecord_write_to(control_record, now2, id), io,
            EntryId(self.datalog_id, id, Untyped))

\* a get_entry_dynamic that would look at the lifestatus before the type
get_entry_dynamic_lifetime_first(self, key, entry_type, metadata, now1, now2, io) ==
    IF entry_type = VoidType THEN [w |-> self, res |-> Err("RecordType")]
    ELSE IF key \in DOMAIN self.entry_id_map
    THEN LET id == self.entry_id_map[key]
         IN IF ~HasEntry(self, id) THEN [w |-> self, res |-> Err("NoSuchEntry")]
            ELSE
            LET data == self.entry_data[id + 1]
            IN IF ~data.lifestatus.alive
               THEN [w |-> self, res |-> Err("OutsideEntryLifetime")]
               ELSE IF data.prehashed_type # get_data_type_serial(entry_type)
               THEN [w |-> self, res |-> Err("EntryTypeMismatch")]
               ELSE [w |-> self, res |-> Ok(EntryId(self.datalog_id, id, Untyped))]
    ELSE
    LET id == self.highest_entry_id
        registered ==
            [self EXCEPT
                !.entry_id_map = MapInsert(self.entry_id_map, key, id),
                !.entry_data = Append(self.entry_data,
                    [key |-> key, entry_type |-> get_data_type(entry_type).val,
                     prehashed_type |-> get_data_type_serial(entry_type),
                     lifestatus |-> Alive(now1)]),
                !.highest_entry_id = self.highest_entry_id + 1]
        control_record ==
            Start(key, get_data_type(entry_type).val,
                  IF metadata.some THEN metadata.val ELSE <<>>)
    IN Emit(registered, ControlRecord_write_to(control_record, now2, id), io,
            EntryId(self.datalog_id, id, Untyped))

\* a get_entry_dynamic that would leave the counter of ids as it is
get_entry_dynamic_without_increment(self, key, entry_type, metadata, now1, now2, io) ==
    IF entry_type = VoidType THEN [w |-> self, res |-> Err("RecordType")]
    ELSE IF key \in DOMAIN self.entry_id_map
    THEN LET id == self.entry_id_map[key]
         IN IF ~HasEntry(self, id) THEN [w |-> self, res |-> Err("NoSuchEntry")]
            ELSE
            LET data == self.entry_data[id + 1]
            IN IF data.prehashed_type # get_data_type_serial(entry_type)
               THEN [w |-> self, res |-> Err("EntryTypeMismatch")]
               ELSE IF ~data.lifestatus.alive
               THEN [w |-> self, res |-> Err("OutsideEntryLifetime")]
               ELSE [w |-> self, res |-> Ok(EntryId(self.datalog_id, id, Untyped))]
    ELSE
    LET id == self.highest_entry_id
        registered ==
            [self EXCEPT
                !.entry_id_map = MapInsert(self.entry_id_map, key, id),
                !.entry_data = Append(self.entry_data,
                    [key |-> key, entry_type |-> get_data_type(entry_type).val,
                     prehashed_type |-> get_data_type_serial(entry_type),
                     lifestatus |-> Alive(now1)])]
        control_record ==
            Start(key, get_data_type(entry_type).val,
                  IF metadata.some THEN metadata.val ELSE <<>>)
    IN Emit(registered, ControlRecord_write_to(control_record, now2, id), io,
            EntryId(self.datalog_id, id, Untyped))

\* a get_entry_dynamic that would start the Dead entry of a key again
get_entry_dynamic_reviving(self, key, entry_type, metadata, now1, now2, io) ==
    IF entry_type = VoidType THEN [w |-> self, res |-> Err("RecordType")]
    ELSE IF key \in DOMAIN self.entry_id_map
    THEN LET id == self.entry_id_map[key]
         IN IF ~HasEntry(self, id) THEN [w |-> self, res |-> Err("NoSuchEntry")]
            ELSE
            LET data == self.entry_data[id + 1]
            IN IF data.prehashed_type # get_data_type_serial(entry_type)
               THEN [w |-> self, res |-> Err("EntryTypeMismatch")]
               ELSE IF ~data.lifestatus.alive
               THEN Emit([self EXCEPT !.entry_data[id + 1].lifestatus = Alive(now1)],
                         ControlRecord_write_to(
                             Start(key, get_data_type(entry_type).val,
                                   IF metadata.some THEN metadata.val ELSE <<>>),
                             now2, id),
                         io, EntryId(self.datalog_id, id, Untyped))
               ELSE [w |-> self, res |-> Ok(EntryId(self.datalog_id, id, Untyped))]
    ELSE
    LET id == self.highest_entry_id
        registered ==
            [self EXCEPT
                !.entry_id_map = MapInsert(self.entry_id_map, key, id),
                !.entry_data = Append(self.entry_data,
                    [key |-> key, entry_type |-> get_data_type(entry_type).val,
                     prehashed_type |-> get_data_type_serial(entry_type),
                     lifestatus |-> Alive(now1)]),
                !.highest_entry_id = self.highest_entry_id + 1]
        control_record ==
            Start(key, get_data_type(entry_type).val,
                  IF metadata.some THEN metadata.val ELSE <<>>)
    IN Emit(registered, ControlRecord_write_to(control_record, now2, id), io,
            EntryId(self.datalog_id, id, Untyped))

\* get_entry_dynamic; now1 and now2 are its two readings of now(), metadata
\* is None or Some(string).  No string of the model is longer than u32::MAX,
\* so MetadataTooLarge is out of reach.  The entry keeps the type string
\* (entry_type.to_string()); packing_buffer, which nothing reads, is left out.
get_entry_dynamic(self, key, entry_type, metadata, now1, now2, io) ==
    IF entry_type = VoidType THEN [w |-> self, res |-> Err("RecordType")]
    ELSE IF key \in DOMAIN self.entry_id_map
    THEN LET id == self.entry_id_map[key]
         IN IF ~HasEntry(self, id) THEN [w |-> self, res |-> Err("NoSuchEntry")]
            ELSE
            LET data == self.entry_data[id + 1]
            IN IF data.prehashed_type # get_data_type_serial(entry_type)
               THEN [w |-> self, res |-> Err("EntryTypeMismatch")]
               ELSE IF ~data.lifestatus.alive
               THEN [w |-> self, res |-> Err("OutsideEntryLifetime")]
               ELSE [w |-> self, res |-> Ok(EntryId(self.datalog_id, id, Untyped))]
    ELSE
    LET id == self.highest_entry_id
        registered ==
            [self EXCEPT
                !.entry_id_map = MapInsert(self.entry_id_map, key, id),
                !.entry_data = Append(self.entry_data,
                    [key |-> key, entry_type |-> get_data_type(entry_type).val,
                     prehashed_type |-> get_data_type_serial(entry_type),
                     lifestatus |-> Alive(now1)]),
                !.highest_entry_id = self.highest_entry_id + 1]
        control_record ==
            Start(key, get_data_type(entry_type).val,
                  IF metadata.some THEN metadata.val ELSE <<>>)
    IN Emit(registered, ControlRecord_write_to(control_record, now2, id), io,
            EntryId(self.datalog_id, id, Untyped))

\* get_entry::<T>: get_entry_dynamic with T::TYPE, the handle typed by T
get_entry(self, key, T, metadata, now1, now2, io) ==
    LET r == get_entry_dynamic(self, key, T, metadata, now1, now2, io)
    IN IF r.res.ok
       THEN [r EXCEPT !.res = Ok(EntryId(r.res.val.datalog_id, r.res.val.entry_id, T))]
       ELSE r

\* a close_entry that would close a Dead entry once more
close_entry_of_dead(self, id, now1, now2, io) ==
    IF id.datalog_id # self.datalog_id
    THEN [w |-> self, res |-> Err("InvalidDataLog")]
    ELSE IF ~HasEntry(self, id.entry_id) THEN [w |-> self, res |-> Err("NoSuchEntry")]
    ELSE
    LET data == self.entry_data[id.entry_id + 1]
        closed ==
            [self EXCEPT !.entry_data[id.entry_id + 1] =
                [key |-> <<>>, entry_type |-> <<>>,
                 prehashed_type |-> data.prehashed_type,
                 lifestatus |-> Dead(data.lifestatus.start, now1)]]
    IN Emit(closed, ControlRecord_write_to(Finish, now2, id.entry_id), io, "unit")

\* a close_entry that would write the Finish and leave the entry Alive
close_entry_keeping_alive(self, id, now1, now2, io) ==
    IF id.datalog_id # self.datalog_id
    THEN [w |-> self, res |-> Err("InvalidDataLog")]
    ELSE IF ~HasEntry(self, id.entry_id) THEN [w |-> self, res |-> Err("NoSuchEntry")]
    ELSE
    LET data == self.entry_data[id.entry_id + 1]
    IN IF ~data.lifestatus.alive THEN [w |-> self, res |-> Err("OutsideEntryLifetime")]
       ELSE Emit(self, ControlRecord_write_to(Finish, now2, id.entry_id), io, "unit")

\* close_entry; now1 and now2 are its two readings of now()
close_entry(self, id, now1, now2, io) ==
    IF id.datalog_id # self.datalog_id
    THEN [w |-> self, res |-> Err("InvalidDataLog")]
    ELSE IF ~HasEntry(self, id.entry_id) THEN [w |-> self, res |-> Err("NoSuchEntry")]
    ELSE
    LET data == self.entry_data[id.entry_id + 1]
    IN IF ~data.lifestatus.alive THEN [w |-> self, res |-> Err("OutsideEntryLifetime")]
       ELSE
       LET closed ==
               [self EXCEPT !.entry_data[id.entry_id + 1] =
                   [key |-> <<>>, entry_type |-> <<>>,
                    prehashed_type |-> data.prehashed_type,
                    lifestatus |-> Dead(data.lifestatus.start, now1)]]
       IN Emit(closed, ControlRecord_write_to(Finish, now2, id.entry_id), io, "unit")

\* ------------------------------------------------------------------------
\* The state

VARIABLES
    DATALOG_INCREMENTER, \* writer.rs: the process-wide AtomicU32
    writers,             \* the DataLogWriter instances: NoWriter until constructed
    clock,               \* the last reading of now()
    handles,             \* the entry handles the Writers have returned
    written,             \* per Writer: the (entry, value, timestamp) of each write that returned Ok
    io_failed,           \* per Writer: whether an output write has failed
    result,              \* the last operation and what it returned
    nops,                \* the number of operations so far
    prev,                \* the Writer of the last operation as it was before it
    call,                \* the arguments of the last operation
    returned,            \* the handle the last operation returned, if it returned one
    emitted,             \* per Writer: the record of each call that emitted one and returned Ok
    \* one record through the codec
    crec,                \* the record given to write_to
    cbytes,              \* the bytes write_to has written
    cdecoded,            \* what Record::from_binary has returned for them
    cpc,                 \* "input", "encoded" or "decoded"
    \* a record stream through parse_records
    stream,              \* the bytes of the stream
    sframes,             \* per framed record of the stream: its end offset and, if it decodes, the record
    scut,                \* whether the stream has been truncated
    sresult,             \* what parse_records has returned
    spc,                 \* "build", "cut" or "parsed"
    \* DataLogReader::read
    records,             \* the Vec parse_records has returned
    idx,                 \* the number of records the ingest loop has gone through
    rs,                  \* the loop's keys, data, entry_types and entry_status
    before,              \* rs as it was before the last record ingested
    reader,              \* what try_new has returned
    rpc,                 \* "closed", "ingest", "open" or "failed"
    query,               \* the last time-range query of the Reader and its result
    \* DataLogReader::try_new on a file, under a configuration
    ofile,               \* the bytes of the file
    oconfig,             \* the DataLogReaderConfig
    ometa,               \* Some(the metadata given to DataLogWriter::new), None for a file no Writer made
    oresult,             \* what try_new has returned
    opc,                 \* "start", "file" or "done"
    \* the integer functions of proto/util.rs, proto/entries.rs and proto/records.rs
    fin,                 \* the arguments
    fout,                \* what the function has returned
    fpc                  \* "input" or "output"

wvars ==
    <<DATALOG_INCREMENTER, writers, clock, handles, written, io_failed, result, nops,
      prev, call, returned, emitted>>

cvars == <<crec, cbytes, cdecoded, cpc>>

svars == <<stream, sframes, scut, sresult, spc>>

rvars == <<records, idx, rs, before, reader, rpc, query>>

ovars == <<ofile, oconfig, ometa, oresult, opc>>

fvars == <<fin, fout, fpc>>

vars == <<wvars, cvars, svars, rvars, ovars, fvars>>

\* ------------------------------------------------------------------------
\* The Writer's specification: the calls a program makes on its Writers

NumWriters == 2

MaxOps == 4

Writers == 1..NumWriters

NoWriter == [datalog_id |-> 0]

KeyX == <<120>>

KeyY == <<121>>

Keys == {KeyX, KeyY}

StructS == <<83>>

\* the T of get_entry::<T>, and the entry_type of get_entry_dynamic
StaticTypes == {PrimType("Int"), PrimType("String")}

EntryTypes == StaticTypes \cup {VoidType}

IntValue(n) == [t |-> "Int", v |-> U64Of(n)]

StringValue(bytes) == [t |-> "String", v |-> bytes]

Values == {IntValue(10), StringValue(<<111>>), Void}

\* the metadata given to DataLogWriter::new
HeaderMetadatas == {<<116>>}

Metadatas == {None, Some(<<109>>)}

\* the readings of now() and the timestamps given to write_timestamped
Times == {U64Of(1), U64Of(300)}

IoOutcomes == {IoOk, IoFail(1)}

\* the sessions explored have at most one failing output write
IoAllowed(io) == io.ok \/ \A w \in DOMAIN io_failed : ~io_failed[w]

Created(w) == writers[w] # NoWriter

\* no record in the codec
CodecIdle ==
    /\ crec = [kind |-> "none"]
    /\ cbytes = <<>>
    /\ cdecoded = Err("none")
    /\ cpc = "idle"

\* no stream
StreamIdle ==
    /\ stream = <<>>
    /\ sframes = <<>>
    /\ scut = FALSE
    /\ sresult = Err("none")
    /\ spc = "idle"

NoQuery == [op |-> "none"]

\* no file to open
OpenIdle ==
    /\ ofile = <<>>
    /\ oconfig = DefaultConfig
    /\ ometa = None
    /\ oresult = Err("none")
    /\ opc = "idle"

\* no function to apply
FunctionsIdle ==
    /\ fin = [f |-> "none"]
    /\ fout = [f |-> "none"]
    /\ fpc = "idle"

\* no Reader
ReaderIdle ==
    /\ records = <<>>
    /\ idx = 0
    /\ rs = EmptyRead
    /\ before = EmptyRead
    /\ reader = Err("none")
    /\ rpc = "idle"
    /\ query = NoQuery

NoHandle == [datalog_id |-> 0]

NoCall == [id |-> NoHandle, value |-> Void, key |-> <<>>, entry_type |-> VoidType]

\* no Writer
WriterIdle ==
    /\ DATALOG_INCREMENTER = 1
    /\ writers = [w \in Writers |-> NoWriter]
    /\ clock = U64Of(0)
    /\ handles = {}
    /\ written = [w \in Writers |-> <<>>]
    /\ io_failed = [w \in Writers |-> FALSE]
    /\ result = [op |-> "none", w |-> 0, ok |-> TRUE, err |-> ""]
    /\ nops = 0
    /\ prev = NoWriter
    /\ call = NoCall
    /\ returned = NoHandle
    /\ emitted = [w \in Writers |-> <<>>]

Init == WriterIdle /\ CodecIdle /\ StreamIdle /\ ReaderIdle /\ OpenIdle /\ FunctionsIdle

\* what an operation on Writer w leaves behind
Done(op, w, r) ==
    /\ writers' = [writers EXCEPT ![w] = r.w]
    /\ io_failed' = [io_failed EXCEPT ![w] = @ \/ (~r.res.ok /\ r.res.err = "Io")]
    /\ result' = [op |-> op, w |-> w, ok |-> r.res.ok,
                  err |-> IF r.res.ok THEN "" ELSE r.res.err]
    /\ nops' = nops + 1
    /\ returned' = IF r.res.ok /\ op \in {"get_entry_dynamic", "get_entry"}
                   THEN r.res.val ELSE NoHandle

\* the Writer an operation met and the arguments it was given
Called(w, id, value, key, entry_type) ==
    /\ prev' = writers[w]
    /\ call' = [id |-> id, value |-> value, key |-> key, entry_type |-> entry_type]

\* the record a successful call that emits one leaves in `emitted`
Emitted(w, emits, record) ==
    emitted' = IF emits THEN [emitted EXCEPT ![w] = Append(@, record)] ELSE emitted

\* an increment that loses its store, as a load and a store that are not one
\* atomic step can
fetch_add_lost(atomic, val) == [previous |-> atomic, stored |-> atomic]

\* AtomicU32::fetch_add(val, SeqCst): one atomic step that returns the
\* previous value and stores the sum; the Writers of the model are too few
\* for the sum to wrap
fetch_add(atomic, val) == [previous |-> atomic, stored |-> atomic + val]

\* DataLogWriter::new(file, metadata); a failed new returns no Writer
New(w, metadata, io) ==
    /\ nops < MaxOps
    /\ ~Created(w) /\ \A v \in Writers : v < w => Created(v)
    /\ IoAllowed(io)
    /\ LET fetched == fetch_add(DATALOG_INCREMENTER, 1)
           r == DataLogWriter_new(fetched.previous, metadata, io)
       IN /\ DATALOG_INCREMENTER' = fetched.stored
          /\ writers' = [writers EXCEPT ![w] = IF r.res.ok THEN r.w ELSE NoWriter]
          /\ result' = [op |-> "new", w |-> w, ok |-> r.res.ok,
                        err |-> IF r.res.ok THEN "" ELSE r.res.err]
    /\ nops' = nops + 1
    /\ prev' = NoWriter
    /\ call' = NoCall
    /\ returned' = NoHandle
    /\ UNCHANGED <<clock, handles, written, io_failed, emitted, cvars, svars, rvars, ovars, fvars>>

\* the Start record of a new entry, by the arguments of the call and the
\* handle it returned
StartOf(key, entry_type, metadata, timestamp, handle) ==
    ControlOf(Start(key, get_data_type(entry_type).val,
                    IF metadata.some THEN metadata.val ELSE <<>>),
              timestamp, handle.entry_id)

GetEntryDynamic(w, key, entry_type, metadata, now1, now2, io) ==
    /\ nops < MaxOps
    /\ Created(w)
    /\ IoAllowed(io)
    /\ U64Leq(clock, now1) /\ U64Leq(now1, now2)
    /\ LET r == get_entry_dynamic(writers[w], key, entry_type, metadata, now1, now2, io)
       IN /\ Done("get_entry_dynamic", w, r)
          /\ handles' = IF r.res.ok THEN handles \cup {r.res.val} ELSE handles
          /\ Emitted(w, r.res.ok /\ key \notin DOMAIN writers[w].entry_id_map,
                     StartOf(key, entry_type, metadata, now2, r.res.val))
    /\ Called(w, NoHandle, Void, key, entry_type)
    /\ clock' = now2
    /\ UNCHANGED <<DATALOG_INCREMENTER, written, cvars, svars, rvars, ovars, fvars>>

GetEntry(w, key, T, metadata, now1, now2, io) ==
    /\ nops < MaxOps
    /\ Created(w)
    /\ IoAllowed(io)
    /\ U64Leq(clock, now1) /\ U64Leq(now1, now2)
    /\ LET r == get_entry(writers[w], key, T, metadata, now1, now2, io)
       IN /\ Done("get_entry", w, r)
          /\ handles' = IF r.res.ok THEN handles \cup {r.res.val} ELSE handles
          /\ Emitted(w, r.res.ok /\ key \notin DOMAIN writers[w].entry_id_map,
                     StartOf(key, T, metadata, now2, r.res.val))
    /\ Called(w, NoHandle, Void, key, T)
    /\ clock' = now2
    /\ UNCHANGED <<DATALOG_INCREMENTER, written, cvars, svars, rvars, ovars, fvars>>

\* the write a successful call leaves in `written`
Wrote(w, r, id, value, timestamp) ==
    written' = IF r.res.ok /\ value # Void
               THEN [written EXCEPT ![w] =
                        Append(@, [entry_id |-> id.entry_id, value |-> value,
                                   timestamp |-> timestamp])]
               ELSE written

\* what a write leaves in prev, call and emitted
WriteCalled(w, r, id, value, timestamp) ==
    /\ Called(w, id, value, <<>>, VoidType)
    /\ Emitted(w, r.res.ok /\ value # Void,
               DataOf(DataRecord_from(value), timestamp, id.entry_id))

\* write(id: TypedEntryId<T>, value: T): the value is of type T or, an absent
\* Option, void
Write(w, id, value, now, io) ==
    /\ nops < MaxOps
    /\ Created(w)
    /\ IoAllowed(io)
    /\ id.ty # Untyped /\ (value = Void \/ get_type(value) = id.ty)
    /\ U64Leq(clock, now)
    /\ LET r == write(writers[w], id, value, now, io)
       IN Done("write", w, r) /\ Wrote(w, r, id, value, now)
          /\ WriteCalled(w, r, id, value, now)
    /\ clock' = now
    /\ UNCHANGED <<DATALOG_INCREMENTER, handles, cvars, svars, rvars, ovars, fvars>>

WriteTimestamped(w, id, value, timestamp, io) ==
    /\ nops < MaxOps
    /\ Created(w)
    /\ IoAllowed(io)
    /\ id.ty # Untyped /\ (value = Void \/ get_type(value) = id.ty)
    /\ LET r == write_timestamped(writers[w], id, value, timestamp, io)
       IN Done("write_timestamped", w, r) /\ Wrote(w, r, id, value, timestamp)
          /\ WriteCalled(w, r, id, value, timestamp)
    /\ UNCHANGED <<DATALOG_INCREMENTER, handles, clock, cvars, svars, rvars, ovars, fvars>>

WriteDynamic(w, id, value, timestamp, io) ==
    /\ nops < MaxOps
    /\ Created(w)
    /\ IoAllowed(io)
    /\ LET r == write_dynamic(writers[w], id, TimestampedValue(timestamp, value), io)
       IN Done("write_dynamic", w, r) /\ Wrote(w, r, id, value, timestamp)
          /\ WriteCalled(w, r, id, value, timestamp)
    /\ UNCHANGED <<DATALOG_INCREMENTER, handles, clock, cvars, svars, rvars, ovars, fvars>>

CloseEntry(w, id, now1, now2, io) ==
    /\ nops < MaxOps
    /\ Created(w)
    /\ IoAllowed(io)
    /\ U64Leq(clock, now1) /\ U64Leq(now1, now2)
    /\ LET r == close_entry(writers[w], id, now1, now2, io)
       IN /\ Done("close_entry", w, r)
          /\ Emitted(w, r.res.ok, ControlOf(Finish, now2, id.entry_id))
    /\ Called(w, id, Void, <<>>, VoidType)
    /\ clock' = now2
    /\ UNCHANGED <<DATALOG_INCREMENTER, handles, written, cvars, svars, rvars, ovars, fvars>>

Next ==
    \/ nops < MaxOps /\ \E w \in Writers, m \in HeaderMetadatas, io \in IoOutcomes : New(w, m, io)
    \/ nops < MaxOps /\ \E w \in Writers, k \in Keys, ty \in EntryTypes, m \in Metadatas,
          now1 \in Times, now2 \in Times, io \in IoOutcomes :
            GetEntryDynamic(w, k, ty, m, now1, now2, io)
    \/ nops < MaxOps /\ \E w \in Writers, k \in Keys, ty \in StaticTypes, m \in Metadatas,
          now1 \in Times, now2 \in Times, io \in IoOutcomes :
            GetEntry(w, k, ty, m, now1, now2, io)
    \/ nops < MaxOps /\ \E w \in Writers, id \in handles, v \in Values, now \in Times, io \in IoOutcomes :
            Write(w, id, v, now, io)
    \/ nops < MaxOps /\ \E w \in Writers, id \in handles, v \in Values, ts \in Times, io \in IoOutcomes :
            WriteTimestamped(w, id, v, ts, io)
    \/ nops < MaxOps /\ \E w \in Writers, id \in handles, v \in Values, ts \in Times, io \in IoOutcomes :
            WriteDynamic(w, id, v, ts, io)
    \/ nops < MaxOps /\ \E w \in Writers, id \in handles, now1 \in Times, now2 \in Times,
          io \in IoOutcomes :
            CloseEntry(w, id, now1, now2, io)

Spec == Init /\ [][Next]_vars

\* ------------------------------------------------------------------------
\* The codec's specification: one record written by write_to and read back
\* by Record::from_binary

\* an i64, f32 or f64 by its little-endian bytes
I64MinusOne == <<255, 255, 255, 255, 255, 255, 255, 255>>

F32One == <<0, 0, 128, 63>>

F64One == <<0, 0, 0, 0, 0, 0, 240, 63>>

Data(t, v) == [t |-> t, v |-> v]

\* values of the eleven variants, the empty raw, string and arrays among
\* them, and a raw payload whose length takes two bytes
DataValues ==
    << Data("Raw", <<>>), Data("Raw", <<1, 2>>), Data("Raw", Zeros(256)),
      Data("Boolean", TRUE), Data("Boolean", FALSE),
      Data("Integer", U64Of(10)), Data("Integer", I64MinusOne),
      Data("Float", F32One), Data("Double", F64One),
      Data("String", <<>>), Data("String", <<97, 98>>),
      Data("BooleanArray", <<>>), Data("BooleanArray", <<TRUE, FALSE>>),
      Data("IntegerArray", <<>>), Data("IntegerArray", <<U64Of(1), I64MinusOne>>),
      Data("FloatArray", <<>>), Data("FloatArray", <<F32One, F32One>>),
      Data("DoubleArray", <<>>), Data("DoubleArray", <<F64One>>),
      Data("StringArray", <<>>), Data("StringArray", <<<<97>>, <<>>>>),
      Data("StringArray", <<<<>>>>) >>

\* timestamps of widths 1, 2, 5 and 8
Timestamps ==
    { U64Of(0), U64Of(300), <<0, 0, 0, 0, 1, 0, 0, 0>>, I64MinusOne }

\* entry ids of widths 1 to 4
DataIds == {1, 256, 65536, 16777216, 2147483647}

ControlIds == {0, 1, 16777216}

ControlRecords ==
    { Start(<<>>, Int64Str, <<>>), Start(KeyX, Int64Str, <<109>>),
      Start(KeyX, StructS, <<>>), Finish, Metadata(<<>>), Metadata(<<97>>) }

InitCodec ==
    /\ WriterIdle /\ StreamIdle /\ ReaderIdle /\ OpenIdle /\ FunctionsIdle
    /\ \/ \E i \in DOMAIN DataValues, ts \in Timestamps, id \in DataIds :
             crec = DataOf(DataValues[i], ts, id)
       \/ \E c \in ControlRecords, ts \in Timestamps, id \in ControlIds :
             crec = ControlOf(c, ts, id)
    /\ cbytes = <<>>
    /\ cdecoded = Err("none")
    /\ cpc = "input"

\* DataRecord::write_to(timestamp, id, buffer)
DataWriteTo ==
    /\ cpc = "input" /\ crec.kind = "Data"
    /\ cbytes' = DataRecord_write_to(crec.rec, crec.timestamp, crec.id)
    /\ cpc' = "encoded"
    /\ UNCHANGED <<crec, cdecoded, wvars, svars, rvars, ovars, fvars>>

\* ControlRecord::write_to(timestamp, id, buffer)
ControlWriteTo ==
    /\ cpc = "input" /\ crec.kind = "Control"
    /\ cbytes' = ControlRecord_write_to(crec.rec, crec.timestamp, crec.id)
    /\ cpc' = "encoded"
    /\ UNCHANGED <<crec, cdecoded, wvars, svars, rvars, ovars, fvars>>

\* the type map that binds the id of a data record to the type of its value
TypeMapOf(record) ==
    IF record.kind = "Data"
    THEN MapInsert(EmptyMap, record.id, DataRecord_get_data_type(record.rec))
    ELSE EmptyMap

\* Record::from_binary(bytes, type_map)
FromBinary ==
    /\ cpc = "encoded"
    /\ cdecoded' = Record_from_binary(cbytes, TypeMapOf(crec))
    /\ cpc' = "decoded"
    /\ UNCHANGED <<crec, cbytes, wvars, svars, rvars, ovars, fvars>>

NextCodec == DataWriteTo \/ ControlWriteTo \/ FromBinary

SpecCodec == InitCodec /\ [][NextCodec]_vars

\* ------------------------------------------------------------------------
\* The record stream's specification: records written one after the other,
\* the stream cut short or not, and parse_records over it

MaxStream == 3

\* the type map handed to parse_records
StreamTypes ==
    MapInsert(MapInsert(MapInsert(EmptyMap, 1, Int64Str), 2, StringStr),
              3, StringStr \o ArraySuffix)

GoodRecords ==
    << ControlOf(Start(KeyX, Int64Str, <<>>), U64Of(1), 1),
       DataOf(Data("Integer", U64Of(10)), U64Of(300), 1),
       DataOf(Data("String", <<97, 98>>), U64Of(2), 2),
       ControlOf(Finish, U64Of(3), 1) >>

\* a framed record of one-byte id, payload length and timestamp
Frame(id, timestamp, payload) == <<0, id, Len(payload), timestamp>> \o payload

\* complete frames whose payload does not decode: a control record of type 7,
\* a string[] whose length field claims five bytes where one is left, a
\* string that is not UTF-8, an int64 of two bytes
BadFrames ==
    << Frame(0, 4, <<7, 1, 0, 0, 0>>),
       Frame(3, 4, <<5, 0, 0, 0, 97>>),
       Frame(2, 4, <<255>>),
       Frame(1, 4, <<1, 2>>) >>

InitStream ==
    /\ WriterIdle /\ CodecIdle /\ ReaderIdle /\ OpenIdle /\ FunctionsIdle
    /\ stream = <<>>
    /\ sframes = <<>>
    /\ scut = FALSE
    /\ sresult = Err("none")
    /\ spc = "build"

\* Record::write_to at the end of the stream
WriteRecord(i) ==
    /\ spc = "build" /\ Len(sframes) < MaxStream
    /\ stream' = stream \o Record_write_to(GoodRecords[i])
    /\ sframes' = Append(sframes, [end |-> Len(stream'), good |-> TRUE,
                                   rec |-> GoodRecords[i]])
    /\ UNCHANGED <<scut, sresult, spc, wvars, cvars, rvars, ovars, fvars>>

\* a frame that does not decode at the end of the stream
WriteBadFrame(i) ==
    /\ spc = "build" /\ Len(sframes) < MaxStream
    /\ stream' = stream \o BadFrames[i]
    /\ sframes' = Append(sframes, [end |-> Len(stream'), good |-> FALSE,
                                   rec |-> [kind |-> "none"]])
    /\ UNCHANGED <<scut, sresult, spc, wvars, cvars, rvars, ovars, fvars>>

\* the stream cut at byte offset n
Truncate(n) ==
    /\ spc = "build" /\ n < Len(stream)
    /\ stream' = Take(stream, n)
    /\ scut' = TRUE
    /\ spc' = "cut"
    /\ UNCHANGED <<sframes, sresult, wvars, cvars, rvars, ovars, fvars>>

\* parse_records(stream, type_map)
ParseRecords ==
    /\ spc \in {"build", "cut"}
    /\ sresult' = parse_records(stream, StreamTypes)
    /\ spc' = "parsed"
    /\ UNCHANGED <<stream, sframes, scut, wvars, cvars, rvars, ovars, fvars>>

NextStream ==
    \/ \E i \in DOMAIN GoodRecords : WriteRecord(i)
    \/ \E i \in DOMAIN BadFrames : WriteBadFrame(i)
    \/ \E n \in 0..(Len(stream) - 1) : Truncate(n)
    \/ ParseRecords

SpecStream == InitStream /\ [][NextStream]_vars

\* ------------------------------------------------------------------------
\* The Reader's specification: try_new on a file, one record of the ingest
\* loop at a time

MaxRecords == 4

\* the framed records a file is made of: two Starts of entry 1 that differ in
\* type, metadata and time, its Finish, a Metadata record in the layout
\* ControlRecord::from_binary reads (type, entry id, length, string), two
\* eight-byte values for it, and the Start of entry 2
FileFrames ==
    << Record_write_to(ControlOf(Start(KeyX, Int64Str, <<>>), U64Of(2), 1)),
       Record_write_to(ControlOf(Start(KeyX, DoubleStr, <<109>>), U64Of(1), 1)),
       Record_write_to(ControlOf(Finish, U64Of(3), 1)),
       Frame(0, 4, <<2, 1, 0, 0, 0, 1, 0, 0, 0, 110>>),
       Record_write_to(DataOf(Data("Integer", U64Of(10)), U64Of(5), 1)),
       Record_write_to(DataOf(Data("Integer", U64Of(7)), U64Of(1), 1)),
       Record_write_to(ControlOf(Start(KeyY, StringStr, <<>>), U64Of(1), 2)) >>

\* the header DataLogWriter::new writes for an empty metadata string
FileHeader == WPILOG_MAGIC \o WPILOG_VERSION \o to_le_bytes(0, 4)

FileOf(frames) == FileHeader \o Concat([i \in DOMAIN frames |-> FileFrames[frames[i]]])

Files ==
    { FileOf(frames) :
        frames \in UNION { [1..n -> DOMAIN FileFrames] : n \in 0..MaxRecords } }

InitReader ==
    /\ WriterIdle /\ CodecIdle /\ StreamIdle /\ OpenIdle /\ FunctionsIdle
    /\ records = <<>>
    /\ idx = 0
    /\ rs = EmptyRead
    /\ before = EmptyRead
    /\ reader = Err("none")
    /\ rpc = "closed"
    /\ query = NoQuery

\* try_new up to the ingest loop of read: the header, then parse_records
Open(file) ==
    /\ rpc = "closed"
    /\ LET header == read_header(file, DefaultConfig)
           parsed == parse_records(header.val.file_buffer, EmptyMap)
       IN IF ~header.ok
          THEN /\ reader' = header
               /\ rpc' = "failed"
               /\ UNCHANGED <<records, rs, before>>
          ELSE IF ~parsed.ok
          THEN /\ reader' = parsed
               /\ rpc' = "failed"
               /\ UNCHANGED <<records, rs, before>>
          ELSE /\ reader' = Ok([format_version |-> header.val.format_version,
                                header_metadata |-> header.val.header_metadata,
                                keys |-> EmptyMap, data |-> EmptyMap])
               /\ records' = parsed.val.records
               /\ rs' = [EmptyRead EXCEPT !.entry_types = parsed.val.type_map]
               /\ before' = rs'
               /\ rpc' = "ingest"
    /\ UNCHANGED <<idx, query, wvars, cvars, svars, ovars, fvars>>

\* one iteration of the for loop of read
Ingest ==
    /\ rpc = "ingest" /\ idx < Len(records)
    /\ before' = rs
    /\ rs' = IngestRecord(rs, records[idx + 1])
    /\ idx' = idx + 1
    /\ UNCHANGED <<records, reader, rpc, query, wvars, cvars, svars, ovars, fvars>>

\* read returns Ok, and try_new sorts the timelines
SortData ==
    /\ rpc = "ingest" /\ idx = Len(records)
    /\ reader' = Ok([reader.val EXCEPT !.keys = rs.keys, !.data = sort_data(rs.data)])
    /\ rpc' = "open"
    /\ UNCHANGED <<records, idx, rs, before, query, wvars, cvars, svars, ovars, fvars>>

\* the keys and the bounds of the queries: the keys of the files and one no
\* file binds, and bounds at and between the timestamps of the values
KeyZ == <<122>>

QueryKeys == {KeyX, KeyY, KeyZ}

QueryTimes == {U64Of(1), U64Of(3), U64Of(5)}

\* The queries take &self and leave the Reader as it is, so one query of each
\* opened Reader covers every sequence of queries.
Queryable == rpc = "open" /\ query = NoQuery

\* a call of read_entry_after on the opened Reader
ReadEntryAfter(entry_key, timestamp) ==
    /\ Queryable
    /\ query' = [op |-> "after", key |-> entry_key, start |-> timestamp,
                 end |-> timestamp,
                 result |-> read_entry_after(reader.val, entry_key, timestamp)]
    /\ UNCHANGED <<records, idx, rs, before, reader, rpc, wvars, cvars, svars, ovars, fvars>>

\* a call of read_entry_before
ReadEntryBefore(entry_key, timestamp) ==
    /\ Queryable
    /\ query' = [op |-> "before", key |-> entry_key, start |-> timestamp,
                 end |-> timestamp,
                 result |-> read_entry_before(reader.val, entry_key, timestamp)]
    /\ UNCHANGED <<records, idx, rs, before, reader, rpc, wvars, cvars, svars, ovars, fvars>>

\* a call of read_entry_between
ReadEntryBetween(entry_key, start, end) ==
    /\ Queryable
    /\ query' = [op |-> "between", key |-> entry_key, start |-> start, end |-> end,
                 result |-> read_entry_between(reader.val, entry_key, start, end)]
    /\ UNCHANGED <<records, idx, rs, before, reader, rpc, wvars, cvars, svars, ovars, fvars>>

\* the settings of a filter: bounds at and between the timestamps of the
\* values, a predicate that accepts the metadata "n", one that accepts int64
FilterBefores == {None, Some(U64Of(3)), Some(U64Of(5))}

FilterAfters == {None, Some(U64Of(1)), Some(U64Of(3))}

MetadataPredicates == {None, Some({<<110>>})}

TypePredicates == {None, Some({Int64Str})}

\* create_entry_filter(entry_key), the setters called for the settings that
\* are Some, and collect
Collect(entry_key, bound_before, bound_after, metadata_predicate, type_predicate) ==
    /\ Queryable
    /\ LET created == create_entry_filter(reader.val, entry_key)
       IN query' = [op |-> "collect", key |-> entry_key,
                    before |-> bound_before, after |-> bound_after,
                    required_metadata_predicate |-> metadata_predicate,
                    required_type_predicate |-> type_predicate,
                    result |-> IF created.some
                               THEN Some(collect(
                                   [created.val EXCEPT
                                       !.before = bound_before,
                                       !.after = bound_after,
                                       !.required_metadata_predicate = metadata_predicate,
                                       !.required_type_predicate = type_predicate]))
                               ELSE None]
    /\ UNCHANGED <<records, idx, rs, before, reader, rpc, wvars, cvars, svars, ovars, fvars>>

NextReader ==
    \/ rpc = "closed" /\ \E file \in Files : Open(file)
    \/ Ingest
    \/ SortData
    \/ Queryable /\ \E k \in QueryKeys, t \in QueryTimes : ReadEntryAfter(k, t)
    \/ Queryable /\ \E k \in QueryKeys, t \in QueryTimes : ReadEntryBefore(k, t)
    \/ Queryable /\ \E k \in QueryKeys, a, b \in QueryTimes : ReadEntryBetween(k, a, b)
    \/ Queryable /\ \E k \in QueryKeys, b \in FilterBefores, a \in FilterAfters,
                      m \in MetadataPredicates, t \in TypePredicates :
           Collect(k, b, a, m, t)

SpecReader == InitReader /\ [][NextReader]_vars

\* ------------------------------------------------------------------------
\* The specification of opening a file: try_new, under a configuration, on a
\* file put together by hand or begun by DataLogWriter::new

\* WPILOG, and WPILOG with its first or its last byte changed
Magics == {WPILOG_MAGIC, <<119, 80, 73, 76, 79, 71>>, <<87, 80, 73, 76, 79, 103>>}

\* the version bytes as they lie in the file
VersionBytes == {<<0, 1>>, <<1, 0>>, <<0, 2>>}

\* header metadata: none, a character, a byte that is not UTF-8
HeaderBytes == {<<>>, <<116>>, <<255>>}

\* what follows the header: nothing, the Start of an entry, the Start and a value
Bodies ==
    {<<>>, FileFrames[2], FileFrames[2] \o FileFrames[5]}

\* files that end inside the header
ShortFiles == {Take(WPILOG_MAGIC \o WPILOG_VERSION \o to_le_bytes(0, 4), n) : n \in {0, 3, 7, 10}}

HeaderFiles ==
    {magic \o version \o to_le_bytes(Len(metadata), 4) \o metadata \o body :
        magic \in Magics, version \in VersionBytes, metadata \in HeaderBytes,
        body \in Bodies}
    \cup ShortFiles

\* the strings given to DataLogWriter::new: none, "t", "test", 300 times "a"
WriterMetadatas == {<<>>, <<116>>, <<116, 101, 115, 116>>, [i \in 1..300 |-> 97]}

Configs ==
    {[require_magic |-> m, required_version |-> v] :
        m \in BOOLEAN, v \in {None, Some(<<1, 0>>), Some(<<0, 1>>)}}

InitOpen ==
    /\ WriterIdle /\ CodecIdle /\ StreamIdle /\ ReaderIdle /\ FunctionsIdle
    /\ ofile = <<>>
    /\ oconfig = DefaultConfig
    /\ ometa = None
    /\ oresult = Err("none")
    /\ opc = "start"

\* a file no Writer made
TakeFile(file) ==
    /\ opc = "start"
    /\ ofile' = file
    /\ ometa' = None
    /\ opc' = "file"
    /\ UNCHANGED <<oconfig, oresult, wvars, cvars, svars, rvars, fvars>>

\* the file DataLogWriter::new leaves, its output writes succeeding
WriteHeader(metadata) ==
    /\ opc = "start"
    /\ ofile' = DataLogWriter_new(1, metadata, IoOk).w.writer
    /\ ometa' = Some(metadata)
    /\ opc' = "file"
    /\ UNCHANGED <<oconfig, oresult, wvars, cvars, svars, rvars, fvars>>

\* DataLogReader::try_new(file, config)
TryNew(config) ==
    /\ opc = "file"
    /\ oconfig' = config
    /\ oresult' = try_new(ofile, config)
    /\ opc' = "done"
    /\ UNCHANGED <<ofile, ometa, wvars, cvars, svars, rvars, fvars>>

NextOpen ==
    \/ \E file \in HeaderFiles : TakeFile(file)
    \/ \E metadata \in WriterMetadatas : WriteHeader(metadata)
    \/ \E config \in Configs : TryNew(config)

SpecOpen == InitOpen /\ [][NextOpen]_vars

\* ------------------------------------------------------------------------
\* The functions of proto/entries.rs, proto/util.rs and proto/records.rs on
\* their own: fin is the function and its arguments, fout what it returned.

TestStr == <<116, 101, 115, 116>>

\* "struct:Pose2d"
StructPoseStr == <<115, 116, 114, 117, 99, 116, 58, 80, 111, 115, 101, 50, 100>>

\* U+00E9 U+4E2D: chars of two and three UTF-8 bytes
WideCharsStr == <<233, 20013>>

MaxCharsLen == 17

\* U+10FFFF, the greatest char, seventeen times: 68 bytes
MaxCharsStr == [i \in 1..MaxCharsLen |-> 1114111]

PrimitiveStrs ==
    { RawStr, BooleanStr, Int64Str, FloatStr, DoubleStr, StringStr,
      BooleanStr \o ArraySuffix, Int64Str \o ArraySuffix, FloatStr \o ArraySuffix,
      DoubleStr \o ArraySuffix, StringStr \o ArraySuffix }

TypeStrs == PrimitiveStrs \cup {TestStr, <<>>, StructPoseStr, WideCharsStr, MaxCharsStr}

\* 2^(8k) - 1
AllOnes(k) == [i \in 1..8 |-> IF i <= k THEN 255 ELSE 0]

\* 2^(8k)
PowerOf256(k) == [i \in 1..8 |-> IF i = k + 1 THEN 1 ELSE 0]

\* the bytes 1, 2, .., k
Counting(k) == [i \in 1..8 |-> IF i <= k THEN i ELSE 0]

U64Values ==
    {U64Of(0)} \cup {AllOnes(k) : k \in 1..8} \cup {PowerOf256(k) : k \in 0..7}
    \cup {Counting(k) : k \in 1..8}

SizesTimestamps == {U64Of(0), AllOnes(8)} \cup {PowerOf256(k) : k \in 0..7}

\* entry ids and payload lengths are u32
SizesIds == {0, 1, 255, 256, 65535, 65536, 16777215, 16777216, 2147483647}

SizesPayloads == {0, 255, 256, 65536, 16777216}

\* the records of a concatenation: the four of GoodRecords, a Metadata record
\* and a raw value without bytes
ConcatRecords ==
    GoodRecords \o << ControlOf(Metadata(<<97>>), U64Of(4), 1),
                      DataOf(Data("Raw", <<>>), U64Of(4), 4) >>

\* the type map handed to parse_records with them
ConcatTypes == MapInsert(StreamTypes, 4, RawStr)

\* slices for UInt::from_binary: of no byte, of one to eight bytes with and
\* without zero bytes at the top, of nine bytes and of 256
Slices ==
    { <<>>, <<1>>, <<0>>, <<1, 0>>, <<0, 1>>, <<1, 2, 3, 0>>, Counting(8), AllOnes(8),
      PowerOf256(0), Zeros(9), [i \in 1..9 |-> 1], Zeros(256) }

\* the FrcTypes with a primitive type name
PrimitiveTypes ==
    {PrimType(t) : t \in {"Raw", "Boolean", "Int", "Float", "Double", "String",
                          "BooleanArray", "IntArray", "FloatArray", "DoubleArray",
                          "StringArray"}}

\* payloads every primitive type decodes: eight bytes that are a string[] of
\* one string as well, and nine
DispatchPayloads == {<<4, 0, 0, 0, 97, 98, 99, 100>>, <<1, 0, 0, 0, 97, 0, 0, 0, 0>>}

\* type maps for the decoding of a data record of entry 1: none for the
\* entry, int64, string, a struct type name, and int64 for another entry
DecodeTypeMaps ==
    << EmptyMap, MapInsert(EmptyMap, 1, Int64Str), MapInsert(EmptyMap, 1, StringStr),
       MapInsert(EmptyMap, 1, StructS), MapInsert(EmptyMap, 2, Int64Str) >>

\* payloads of eight bytes, of one byte and of none
DecodePayloads == {<<4, 0, 0, 0, 97, 98, 99, 100>>, <<97>>, <<>>}

\* a second struct type name
StructT == <<84>>

\* the type strings FrcStructDescDB holds a descriptor for
RegisteredStructs == {StructS, StructT}

\* the type timelines of an entry with values: one or two Starts, in the
\* order sort_data leaves them in
TypeHistories ==
    LET elements == {TimestampedValue(U64Of(t), ty) :
                        t \in {2, 4}, ty \in {StructS, StructT, Int64Str}}
    IN {h \in UNION {[1..n -> elements] : n \in 1..2} : sort_by_key(h) = h}

MaxValues == 3

\* the value timelines: up to MaxValues raw and integer values at
\* timestamps before, at, between and after those of the Starts, sorted
ValueTimelines ==
    LET elements == {TimestampedValue(U64Of(t), value) :
                        t \in 1..5,
                        value \in {[t |-> "Raw", v |-> <<7>>], [t |-> "Int", v |-> U64Of(10)]}}
    IN {s \in UNION {[1..n -> elements] : n \in 0..MaxValues} : sort_by_key(s) = s}

InitFunctions ==
    /\ WriterIdle /\ CodecIdle /\ StreamIdle /\ ReaderIdle /\ OpenIdle
    /\ fout = [f |-> "none"]
    /\ fpc = "input"
    /\ \/ \E s \in TypeStrs : fin = [f |-> "serial", s |-> s]
       \/ \E v \in U64Values : fin = [f |-> "uint", v |-> v]
       \/ \E t \in SizesTimestamps, id \in SizesIds, payload \in SizesPayloads :
              fin = [f |-> "sizes", timestamp |-> t, id |-> id, payload |-> payload]
       \/ \E i, j \in DOMAIN ConcatRecords : fin = [f |-> "concat", first |-> i, second |-> j]
       \/ \E le_bytes \in Slices : fin = [f |-> "from_binary", le_bytes |-> le_bytes]
       \/ \E m \in DOMAIN DecodeTypeMaps, payload \in DecodePayloads :
              fin = [f |-> "decode", type_map |-> DecodeTypeMaps[m], id |-> 1,
                     timestamp |-> 4, payload |-> payload]
       \/ \E type_str \in TypeHistories, values \in ValueTimelines :
              fin = [f |-> "structify",
                     reader |-> [keys |-> MapInsert(EmptyMap, KeyX, 1),
                                 data |-> MapInsert(EmptyMap, 1,
                                     [values |-> values, metadata |-> <<>>,
                                      type_str |-> type_str])]]
       \/ \E ty \in PrimitiveTypes \cup {VoidType, StructType(StructS)},
             bytes \in DispatchPayloads :
              fin = [f |-> "dispatch", ty |-> ty, bytes |-> bytes]

\* get_str_type_serial(s), in a build with or without overflow checks
GetStrTypeSerial(overflow_checks) ==
    /\ fpc = "input"
    /\ fin.f = "serial"
    /\ fout' = [f |-> "serial", checks |-> overflow_checks,
                result |-> get_str_type_serial_u32(fin.s, overflow_checks)]
    /\ fpc' = "output"
    /\ UNCHANGED <<fin, wvars, cvars, svars, rvars, ovars>>

\* UInt::from_binary(UInt::from(v).shrink().as_binary())
UIntRoundTrip ==
    /\ fpc = "input"
    /\ fin.f = "uint"
    /\ LET shrunk == shrink(UInt_from_u64(fin.v))
           binary == as_binary(shrunk)
       IN fout' = [f |-> "uint", shrunk |-> shrunk, binary |-> binary,
                   back |-> UInt_from_binary(binary)]
    /\ fpc' = "output"
    /\ UNCHANGED <<fin, wvars, cvars, svars, rvars, ovars>>

\* RecordElementSizes::create(timestamp, id, payload), and the lengths the
\* decoder takes from its bitfield byte
CreateSizes ==
    /\ fpc = "input"
    /\ fin.f = "sizes"
    /\ LET sizes == RecordElementSizes_create(fin.timestamp, fin.id, fin.payload)
       IN fout' = [f |-> "sizes", sizes |-> sizes,
                   id_length |-> id_length(sizes.bit_field),
                   payload_length |-> payload_length(sizes.bit_field),
                   timestamp_length |-> timestamp_length(sizes.bit_field)]
    /\ fpc' = "output"
    /\ UNCHANGED <<fin, wvars, cvars, svars, rvars, ovars>>

\* parse_records over Record::write_to of one record followed by that of
\* another
ParseConcatenation ==
    /\ fpc = "input"
    /\ fin.f = "concat"
    /\ LET bytes == Record_write_to(ConcatRecords[fin.first])
                    \o Record_write_to(ConcatRecords[fin.second])
       IN fout' = [f |-> "concat", bytes |-> bytes,
                   parsed |-> parse_records(bytes, ConcatTypes)]
    /\ fpc' = "output"
    /\ UNCHANGED <<fin, wvars, cvars, svars, rvars, ovars>>

\* UInt::from_binary(le_bytes)
UIntFromBinary ==
    /\ fpc = "input"
    /\ fin.f = "from_binary"
    /\ fout' = [f |-> "from_binary", result |-> UInt_from_binary(fin.le_bytes)]
    /\ fpc' = "output"
    /\ UNCHANGED <<fin, wvars, cvars, svars, rvars, ovars>>

\* get_data_type_serial(ty), and DataRecord::from_binary of a payload under
\* that serial
DispatchOnSerial ==
    /\ fpc = "input"
    /\ fin.f = "dispatch"
    /\ LET type_serial == get_data_type_serial(fin.ty)
       IN fout' = [f |-> "dispatch", type_serial |-> type_serial,
                   decoded |-> DataRecord_from_binary(fin.bytes, type_serial)]
    /\ fpc' = "output"
    /\ UNCHANGED <<fin, wvars, cvars, svars, rvars, ovars>>

\* Record::from_binary(chunk, type_map) on the chunk of a data record
RecordFromBinary ==
    /\ fpc = "input"
    /\ fin.f = "decode"
    /\ fout' = [f |-> "decode",
                result |-> Record_from_binary(Frame(fin.id, fin.timestamp, fin.payload),
                                              fin.type_map)]
    /\ fpc' = "output"
    /\ UNCHANGED <<fin, wvars, cvars, svars, rvars, ovars>>

\* structify_all_data on a Reader of one entry
StructifyAllData ==
    /\ fpc = "input"
    /\ fin.f = "structify"
    /\ fout' = [f |-> "structify",
                reader |-> structify_all_data(fin.reader, RegisteredStructs)]
    /\ fpc' = "output"
    /\ UNCHANGED <<fin, wvars, cvars, svars, rvars, ovars>>

NextFunctions ==
    \/ \E overflow_checks \in BOOLEAN : GetStrTypeSerial(overflow_checks)
    \/ UIntRoundTrip
    \/ CreateSizes
    \/ ParseConcatenation
    \/ UIntFromBinary
    \/ DispatchOnSerial
    \/ RecordFromBinary
    \/ StructifyAllData

SpecFunctions == InitFunctions /\ [][NextFunctions]_vars

\* ------------------------------------------------------------------------
\* Properties of opening a file

\* the file is long enough for a magic, and its first six bytes are not WPILOG
MagicDiffers == Len(ofile) >= 6 /\ Take(ofile, 6) # WPILOG_MAGIC

\* the version of the file as the Reader reads it
VersionRead == <<ofile[8], ofile[7]>>

\* C21: try_new on a file whose first six bytes are not WPILOG returns
\* MagicMismatch, and no Reader, when require_magic is set; when it is not
\* set the six bytes are passed over and the open goes on as it does for the
\* same file with WPILOG in their place: to VersionMismatch if the version
\* is not the required one, and else through the ingest to a Reader.
MagicIsCheckedWhenRequired ==
    (opc = "done" /\ MagicDiffers)
    => IF oconfig.require_magic
       THEN oresult = Err("MagicMismatch")
       ELSE /\ oresult = try_new(WPILOG_MAGIC \o Drop(ofile, 6), oconfig)
            /\ IF /\ oconfig.required_version.some
                  /\ oconfig.required_version.val # VersionRead
               THEN oresult = Err("VersionMismatch")
               ELSE /\ oresult.ok
                    /\ oresult.val.format_version = VersionRead

\* a file with another magic, opened without require_magic, its entry read
OtherMagicOpened ==
    /\ opc = "done" /\ MagicDiffers
    /\ ~oconfig.require_magic
    /\ oresult.ok
    /\ KeyX \in DOMAIN oresult.val.keys

\* C22: the file DataLogWriter::new leaves is opened by try_new under the
\* default configuration: its magic is WPILOG, its version bytes 0, 1 are
\* read as the version (1, 0), which is the default required_version, and
\* the Reader's header metadata is the string given to the Writer.
WriterHeaderOpensByDefault ==
    (opc = "done" /\ ometa.some /\ oconfig = DefaultConfig)
    => /\ Take(ofile, 6) = WPILOG_MAGIC
       /\ SubSeq(ofile, 7, 8) = <<0, 1>>
       /\ oresult.ok
       /\ oresult.val.format_version = <<1, 0>>
       /\ oresult.val.format_version = DefaultConfig.required_version.val
       /\ oresult.val.header_metadata = ometa.val

\* the header of a Writer given a metadata string of 300 bytes, opened
LongHeaderMetadataOpened ==
    /\ opc = "done" /\ ometa.some /\ oconfig = DefaultConfig
    /\ Len(ometa.val) = 300
    /\ oresult.ok

\* ------------------------------------------------------------------------
\* Properties of the functions.  Once fpc = "output", fout is what the
\* function of fin returned.

Applied(f) == fpc = "output" /\ fin.f = f

RECURSIVE PositionSum(_, _)
\* the sum over the positions 1..n of codepoint_i * (i mod 8)
PositionSum(s, n) ==
    IF n = 0 THEN 0 ELSE s[n] * (n % 8) + PositionSum(s, n - 1)

\* sum * L + L as a number, L the length of the string in bytes
FingerprintRule(s) ==
    WideAdd(WideMul(PositionSum(s, Len(s)), str_len(s)), str_len(s))

\* the compile-time constant of a primitive type name or of "test"
ConstantOf(s) ==
    CASE s = RawStr -> RAW_TYPE_SERIAL
      [] s = BooleanStr -> BOOLEAN_TYPE_SERIAL
      [] s = Int64Str -> INT_TYPE_SERIAL
      [] s = FloatStr -> FLOAT_TYPE_SERIAL
      [] s = DoubleStr -> DOUBLE_TYPE_SERIAL
      [] s = StringStr -> STRING_TYPE_SERIAL
      [] s = BooleanStr \o ArraySuffix -> BOOLEAN_ARRAY_TYPE_SERIAL
      [] s = Int64Str \o ArraySuffix -> INT_ARRAY_TYPE_SERIAL
      [] s = FloatStr \o ArraySuffix -> FLOAT_ARRAY_TYPE_SERIAL
      [] s = DoubleStr \o ArraySuffix -> DOUBLE_ARRAY_TYPE_SERIAL
      [] s = StringStr \o ArraySuffix -> STRING_ARRAY_TYPE_SERIAL
      [] s = TestStr -> const_get_data_type_serial(TestStr)

\* C23: for every type string s, get_str_type_serial(s) returns
\* (sum over the positions i of codepoint_i * (i mod 8)) * L + L, and for
\* "test" and the eleven primitive type names the compile-time constant
TypeSerialIsTheFingerprintRule ==
    Applied("serial") =>
        /\ ~fout.result.panic
        /\ fout.result.serial = FingerprintRule(fin.s)
        /\ fin.s \in PrimitiveStrs \cup {TestStr} =>
               fout.result.serial = Wide(ConstantOf(fin.s))

\* C27: for every u64 value v, shrink yields the smallest size in 1..8 with
\* v < 2^(8 * size) and keeps the value, as_binary yields the size lowest
\* bytes of v, least significant first, and from_binary of them is shrink(v)
\* in value and size
UIntRoundTrips ==
    Applied("uint") =>
        LET size == fout.shrunk.size IN
        /\ size \in 1..8
        /\ \A i \in (size + 1)..8 : fin.v[i] = 0
        /\ size > 1 => fin.v[size] # 0
        /\ fout.shrunk.value = fin.v
        /\ Len(fout.binary) = size
        /\ \A i \in 1..size : fout.binary[i] = fin.v[i]
        /\ fout.back = Some(fout.shrunk)

\* 2^32 - 1 has gone through four bytes and 2^32 through five
UIntAtWidthBoundary ==
    /\ Applied("uint")
    /\ \/ fin.v = AllOnes(4) /\ fout.binary = <<255, 255, 255, 255>>
       \/ fin.v = PowerOf256(4) /\ fout.binary = <<0, 0, 0, 0, 1>>
    /\ fout.back = Some(fout.shrunk)

\* the least number of bytes, one at least, that hold a u64
MinWidth(v) ==
    IF v = Zeros(8) THEN 1
    ELSE CHOOSE w \in 1..8 : v[w] # 0 /\ \A i \in (w + 1)..8 : v[i] = 0

\* C30: for every timestamp, entry id and payload length, bits 0-1 of the
\* bitfield byte are the shrunk id width minus 1, bits 2-3 the shrunk payload
\* length width minus 1, bits 4-6 the shrunk timestamp width minus 1 and
\* bit 7 is 0, the widths being the least that hold the values, and
\* id_length, payload_length and timestamp_length of the byte are those
\* widths
BitfieldHoldsWidths ==
    Applied("sizes") =>
        LET bits == fout.sizes.bit_field
            id_width == fout.sizes.id.size
            payload_width == fout.sizes.payload.size
            timestamp_width == fout.sizes.timestamp.size
        IN /\ id_width = MinWidth(U64Of(fin.id))
           /\ payload_width = MinWidth(U64Of(fin.payload))
           /\ timestamp_width = MinWidth(fin.timestamp)
           /\ bits % 4 = id_width - 1
           /\ (bits \div 4) % 4 = payload_width - 1
           /\ (bits \div 16) % 8 = timestamp_width - 1
           /\ bits \div 128 = 0
           /\ fout.id_length = id_width
           /\ fout.payload_length = payload_width
           /\ fout.timestamp_length = timestamp_width

\* a two-byte id with a three-byte payload length and a timestamp of eight
\* bytes: the byte 0111 1001
WidestTimestampEncoded ==
    /\ Applied("sizes")
    /\ fin.id = 256 /\ fin.payload = 65536 /\ fin.timestamp = AllOnes(8)
    /\ fout.sizes.bit_field = 121
    /\ fout.id_length = 2 /\ fout.payload_length = 3 /\ fout.timestamp_length = 8

\* C28: parse_records over the encoding of one record followed by the
\* encoding of another returns exactly those two records, in that order
ConcatenationDecodesToBoth ==
    Applied("concat") =>
        /\ fout.parsed.ok
        /\ fout.parsed.val.records =
               <<ConcatRecords[fin.first], ConcatRecords[fin.second]>>

\* C39: UInt::from_binary on a slice of n <= 8 bytes returns the value of
\* the bytes, least significant first, with size n, and on a slice of more
\* than 8 bytes it returns None
FromBinaryKeepsSizeOrFails ==
    Applied("from_binary") =>
        LET n == Len(fin.le_bytes) IN
        IF n <= 8
        THEN fout.result = Some([size |-> n, value |-> fin.le_bytes \o Zeros(8 - n)])
        ELSE fout.result = None

\* C37: the fingerprint of each of the eleven primitive types is not zero,
\* is not u32::MAX, the fingerprint of void, and differs from that of every
\* other primitive type, and a payload decoded under it comes out as the
\* variant of that type and of no other
PrimitiveSerialsAreDistinct ==
    (Applied("dispatch") /\ fin.ty \in PrimitiveTypes) =>
        /\ fout.type_serial # 0
        /\ fout.type_serial # INVALID
        /\ fout.type_serial # get_data_type_serial(VoidType)
        /\ fout.type_serial \in SUPPORTED_TYPES_SERIALS
        /\ \A other \in PrimitiveTypes \ {fin.ty} :
               get_data_type_serial(other) # fout.type_serial
        /\ fout.decoded.ok
        /\ DataRecord_get_data_type(fout.decoded.val) = get_data_type(fin.ty).val

\* a payload decoded under the fingerprint of int64[] as an array of one int64
DecodedAsIntegerArray ==
    /\ Applied("dispatch")
    /\ fin.ty = PrimType("IntArray")
    /\ fout.type_serial = 16429
    /\ fout.decoded.ok /\ fout.decoded.val.t = "IntegerArray"
    /\ Len(fout.decoded.val.v) = 1

\* the entry of the record has a type in the type map, and it is one of the
\* eleven primitive type names
MappedToPrimitive ==
    fin.id \in DOMAIN fin.type_map /\ fin.type_map[fin.id] \in PrimitiveStrs

\* C31: a data record is decoded with the type mapped to its entry id: if
\* it decodes, it is a value of that type; when the id has no mapping or
\* the mapped type is not one of the eleven primitive ones, it decodes to
\* the payload as raw bytes, verbatim
UnknownTypeDecodesAsRaw ==
    Applied("decode") =>
        IF MappedToPrimitive
        THEN fout.result.ok =>
                /\ fout.result.val.kind = "Data"
                /\ DataRecord_get_data_type(fout.result.val.rec) = fin.type_map[fin.id]
        ELSE fout.result =
                Ok(DataOf(Data("Raw", fin.payload), U64Of(fin.timestamp), fin.id))

\* what structify_all_data is to leave of a value of an entry with the type
\* timeline type_str: a struct of the type of the latest element of the
\* timeline not after the value, when the value is raw and that type is
\* registered, and the value itself otherwise
Structified(value, type_str) ==
    LET latest == rev_find(type_str, value.timestamp)
    IN IF value.value.t = "Raw" /\ latest.some /\ latest.val \in RegisteredStructs
       THEN TimestampedValue(value.timestamp, StructValue(latest.val, value.value.v))
       ELSE value

\* C32: structify_all_data leaves every entry with as many values as it had,
\* in the same order and at the same timestamps, and with its type and
\* metadata timelines; a raw value becomes a struct value of count 1 with
\* the same bytes exactly when the latest type element not after it names a
\* registered struct, and every other value stays as it is.
StructifyFollowsTypeTimeline ==
    Applied("structify") =>
        /\ fout.reader.keys = fin.reader.keys
        /\ DOMAIN fout.reader.data = DOMAIN fin.reader.data
        /\ \A id \in DOMAIN fin.reader.data :
              LET old == fin.reader.data[id]
                  new == fout.reader.data[id]
              IN /\ new.type_str = old.type_str
                 /\ new.metadata = old.metadata
                 /\ Len(new.values) = Len(old.values)
                 /\ \A i \in DOMAIN old.values :
                       /\ new.values[i].timestamp = old.values[i].timestamp
                       /\ new.values[i] = Structified(old.values[i], old.type_str)

\* an entry that changed its struct type between three raw values: the
\* first, before the first Start, stays raw, the second becomes a struct of
\* the first type at the very timestamp of its Start, and the third a struct
\* of the second type
StructifiedAcrossTypeChange ==
    /\ Applied("structify")
    /\ fin.reader.data[1].type_str =
          <<TimestampedValue(U64Of(2), StructS), TimestampedValue(U64Of(4), StructT)>>
    /\ Len(fin.reader.data[1].values) = 3
    /\ \A i \in 1..3 : fin.reader.data[1].values[i].value.t = "Raw"
    /\ fout.reader.data[1].values =
          <<TimestampedValue(U64Of(1), [t |-> "Raw", v |-> <<7>>]),
            TimestampedValue(U64Of(2), StructValue(StructS, <<7>>)),
            TimestampedValue(U64Of(4), StructValue(StructT, <<7>>))>>

\* ------------------------------------------------------------------------
\* Properties of the codec

\* C2: a data record read back by Record::from_binary from the bytes write_to
\* wrote for it, under a type map that binds its id to the type of its value,
\* is a Data record with the same value, timestamp and id.
DataRecordRoundTrip ==
    (cpc = "decoded" /\ crec.kind = "Data") => cdecoded = Ok(crec)

\* C3: a control record read back by Record::from_binary from the bytes
\* ControlRecord::write_to wrote for it is a Control record with the same
\* body, timestamp and logical entry id.
ControlRecordRoundTrip ==
    (cpc = "decoded" /\ crec.kind = "Control") => cdecoded = Ok(crec)

\* the payload length a frame declares
DeclaredPayloadLen(frame) ==
    LET bits == frame[1]
    IN from_le_bytes(SubSeq(frame, 2 + id_length(bits),
                            1 + id_length(bits) + payload_length(bits)))

\* C4: the payload length a written record declares is the number of bytes
\* written after its header: the record is 1 + id width + payload-length
\* width + timestamp width + declared payload length bytes long.
DeclaredPayloadLengthIsWritten ==
    cpc \in {"encoded", "decoded"} =>
        Len(cbytes) = 1 + total_length(cbytes[1]) + DeclaredPayloadLen(cbytes)

\* ------------------------------------------------------------------------
\* Properties of the record stream

RECURSIVE GoodUpTo(_, _)
\* the records of the frames that decode and end at or before offset n
GoodUpTo(frames, n) ==
    IF frames = <<>> THEN <<>>
    ELSE (IF Head(frames).good /\ Head(frames).end <= n
          THEN <<Head(frames).rec>> ELSE <<>>)
         \o GoodUpTo(Tail(frames), n)

HasBadFrame == \E i \in DOMAIN sframes : ~sframes[i].good

\* C6: parse_records over a stream of valid records cut at any byte offset
\* returns without error exactly the records that lie wholly before the cut.
TruncationIsGraceful ==
    (spc = "parsed" /\ scut /\ ~HasBadFrame) =>
        /\ sresult.ok
        /\ sresult.val.records = GoodUpTo(sframes, Len(stream))

DeclaredSize(chunk) ==
    LET bit_field == from_bits_truncate(chunk[1])
        payload_size == UInt_from_binary(
            SubSeq(chunk, 2 + id_length(bit_field),
                   1 + id_length(bit_field) + payload_length(bit_field)))
    IN 1 + total_length(bit_field) + Deref(payload_size.val)

\* what the chunks leave of the stream
Fragment(chunks) == Drop(stream, Len(Concat(chunks)))

\* C38: chunk_by_record returns on every stream, with an error or with
\* chunks; the chunks are the consecutive slices of a prefix of the stream,
\* each of at least 4 bytes and of the length its header declares, and what
\* is left after them is shorter than the header its first byte announces
ChunksAreConsecutiveFrames ==
    spc = "parsed" =>
        LET chunks == chunk_by_record(stream)
        IN \/ ~chunks.ok /\ chunks.err = "RecordReaderOutOfBounds"
           \/ /\ chunks.ok
              /\ Len(Concat(chunks.val)) <= Len(stream)
              /\ Concat(chunks.val) = Take(stream, Len(Concat(chunks.val)))
              /\ \A i \in DOMAIN chunks.val :
                    /\ Len(chunks.val[i]) >= 4
                    /\ Len(chunks.val[i]) = DeclaredSize(chunks.val[i])
              /\ LET rest == Fragment(chunks.val)
                 IN rest # <<>> =>
                       Len(rest) < total_length(from_bits_truncate(rest[1]))

\* a cut stream that is split into two chunks and a fragment
TwoChunksAndAFragment ==
    /\ spc = "parsed" /\ scut
    /\ chunk_by_record(stream).ok
    /\ Len(chunk_by_record(stream).val) = 2
    /\ Fragment(chunk_by_record(stream).val) # <<>>

\* ------------------------------------------------------------------------
\* Properties of the Reader's ingest.  Once a record has been ingested
\* (idx >= 1), records[idx] is that record, `before` the state it met and rs
\* the state it left.

Ingested == IF idx >= 1 THEN records[idx] ELSE [kind |-> "none"]

IsStart(record) == record.kind = "Control" /\ record.rec.c = "Start"

\* the timelines of entry id in a state of the read
Timelines(state, id) ==
    IF id \in DOMAIN state.data THEN state.data[id] ELSE NewEntryData

IsDead(entry_status, id) == id \in DOMAIN entry_status /\ ~entry_status[id].alive

\* C8: a Data record is appended to the value timeline of its entry if and
\* only if the entry is Alive when the ingest loop comes to the record.
DataAppendedIffAlive ==
    Ingested.kind = "Data" =>
        (IsAlive(before.entry_status, Ingested.id)
         <=> Timelines(rs, Ingested.id).values =
                Append(Timelines(before, Ingested.id).values,
                       TimestampedValue(Ingested.timestamp,
                                        into_frc_value(Ingested.rec))))

\* C9: a Start record for an entry that is Alive leaves the state of the read
\* as it was: the statuses, the keys, the types and every timeline.
StartOfAliveEntryIsIgnored ==
    (IsStart(Ingested) /\ IsAlive(before.entry_status, Ingested.id)) => rs = before

\* a Start ingested for an Alive entry that another Start, of another time
\* and type, had started
SecondStartIngested ==
    /\ IsStart(Ingested) /\ IsAlive(before.entry_status, Ingested.id)
    /\ Ingested.timestamp # before.entry_status[Ingested.id].start
    /\ <<TimestampedValue(Ingested.timestamp, Ingested.rec.entry_type)>>
           # Timelines(before, Ingested.id).type_str

\* C10 as stated: no record makes a Dead entry Alive again or appends to its
\* timelines.
DeadIsTerminal ==
    \A e \in DOMAIN before.entry_status :
        IsDead(before.entry_status, e) =>
            /\ IsDead(rs.entry_status, e)
            /\ Timelines(rs, e) = Timelines(before, e)

\* C10: a record other than a Start of e leaves a Dead entry e Dead, with its
\* start and end times and its timelines as they were; a Start of e makes it
\* Alive from the Start's timestamp and appends the Start's type and metadata
\* to its type and metadata timelines, the value timeline staying as it was.
DeadUntilNextStart ==
    \A e \in DOMAIN before.entry_status :
        IsDead(before.entry_status, e) =>
            IF IsStart(Ingested) /\ Ingested.id = e
            THEN /\ rs.entry_status[e] = Alive(Ingested.timestamp)
                 /\ Timelines(rs, e).values = Timelines(before, e).values
                 /\ Timelines(rs, e).type_str =
                        Append(Timelines(before, e).type_str,
                               TimestampedValue(Ingested.timestamp,
                                                Ingested.rec.entry_type))
                 /\ Timelines(rs, e).metadata =
                        Append(Timelines(before, e).metadata,
                               TimestampedValue(Ingested.timestamp,
                                                Ingested.rec.metadata))
            ELSE /\ rs.entry_status[e] = before.entry_status[e]
                 /\ Timelines(rs, e) = Timelines(before, e)

\* a Start ingested for a Dead entry, which is Alive after it
StartOfDeadEntryIngested ==
    /\ IsStart(Ingested) /\ IsDead(before.entry_status, Ingested.id)
    /\ IsAlive(rs.entry_status, Ingested.id)

\* records[j] is a Start record of entry id
IsStartOf(j, id) ==
    /\ records[j].kind = "Control"
    /\ records[j].rec.c = "Start"
    /\ records[j].id = id

\* the Start records of entry id that precede records[i] in the stream
StartsBefore(i, id) == {j \in 1..(i - 1) : IsStartOf(j, id)}

\* the type of the most recent of them; raw when there is none or when the
\* type is not a primitive one
StreamTypeAt(i) ==
    LET starts == StartsBefore(i, records[i].id)
        last == CHOOSE j \in starts : \A k \in starts : k <= j
    IN IF starts = {} THEN RawStr
       ELSE IF records[last].rec.entry_type \in PrimitiveStrs
            THEN records[last].rec.entry_type
            ELSE RawStr

\* the record just ingested is a Start of an entry that was not Alive
AcceptedStart ==
    /\ idx >= 1
    /\ IsStartOf(idx, records[idx].id)
    /\ ~IsAlive(before.entry_status, records[idx].id)

IsSorted(seq) ==
    \A i \in 1..(Len(seq) - 1) : U64Leq(seq[i].timestamp, seq[i + 1].timestamp)

\* C11: after try_new has returned Ok, the value timeline, the metadata
\* timeline and the type timeline of every entry are non-decreasing by
\* timestamp, whatever the order of the records in the file.
TimelinesAreSorted ==
    rpc = "open" =>
        \A id \in DOMAIN reader.val.data :
            /\ IsSorted(reader.val.data[id].values)
            /\ IsSorted(reader.val.data[id].metadata)
            /\ IsSorted(reader.val.data[id].type_str)

\* a file read to its end whose records came out of timestamp order in the
\* metadata and type timelines of an entry
UnsortedFileOpened ==
    /\ rpc = "open"
    /\ \E id \in DOMAIN rs.data :
          /\ ~IsSorted(rs.data[id].metadata)
          /\ ~IsSorted(rs.data[id].type_str)
          /\ Len(reader.val.data[id].type_str) = Len(rs.data[id].type_str)

\* the values of seq whose timestamp is in the set of timestamps ts
Within(seq, ts) == SelectSeq(seq, LAMBDA v : v.timestamp \in ts)

\* the timestamps of the query bounds and of the values of the files
AllTimes == QueryTimes \cup {r.timestamp : r \in {records[i] : i \in DOMAIN records}}

\* C12: read_entry_after(k, t) returns exactly the values of read_entry(k)
\* with timestamp > t, read_entry_before(k, t) exactly those with timestamp
\* < t and read_entry_between(k, a, b) exactly those with a <= timestamp <= b,
\* each in timeline order; a key the file does not bind yields no value.
RangeQueriesSelectByTimestamp ==
    query.op \in {"after", "before", "between"} =>
        LET all == read_entry(reader.val, query.key)
        IN /\ query.op = "after" =>
                query.result = Within(all, {t \in AllTimes : U64Less(query.start, t)})
           /\ query.op = "before" =>
                query.result = Within(all, {t \in AllTimes : U64Less(t, query.start)})
           /\ query.op = "between" =>
                query.result = Within(all, {t \in AllTimes : /\ U64Leq(query.start, t)
                                                             /\ U64Leq(t, query.end)})
           /\ query.key \notin DOMAIN reader.val.keys => query.result = <<>>

\* read_entry_after at the timestamp of the first of two values of an entry:
\* the value at the bound is left out and the later one returned
AfterQueryAtBound ==
    /\ query.op = "after"
    /\ Len(read_entry(reader.val, query.key)) = 2
    /\ read_entry(reader.val, query.key)[1].timestamp = query.start
    /\ query.result = <<read_entry(reader.val, query.key)[2]>>

\* ------------------------------------------------------------------------
\* Properties of the filters.  After a Collect, query holds the settings of
\* the filter and what collect returned, None where the key has no entry.

Collected == query.op = "collect" /\ query.result.some

NoPredicates ==
    ~query.required_metadata_predicate.some /\ ~query.required_type_predicate.some

\* C25: collect with before(t) set returns only values whose timestamp is
\* less than t, and with after(t) set only values whose timestamp is greater
\* than t; with the one bound and nothing else set it returns what
\* read_entry_before and read_entry_after return for that bound
CollectBoundsAreExclusive ==
    Collected =>
        LET found == query.result.val IN
        /\ query.before.some =>
               \A i \in DOMAIN found : U64Less(found[i].timestamp, query.before.val)
        /\ query.after.some =>
               \A i \in DOMAIN found : U64Less(query.after.val, found[i].timestamp)
        /\ (query.before.some /\ ~query.after.some /\ NoPredicates) =>
               found = read_entry_before(reader.val, query.key, query.before.val)
        /\ (query.after.some /\ ~query.before.some /\ NoPredicates) =>
               found = read_entry_after(reader.val, query.key, query.after.val)

\* the elements of a timeline with the greatest timestamp that is not after t
LatestUpTo(timeline, t) ==
    {i \in DOMAIN timeline :
        /\ U64Leq(timeline[i].timestamp, t)
        /\ \A j \in DOMAIN timeline :
               U64Leq(timeline[j].timestamp, t)
               => U64Leq(timeline[j].timestamp, timeline[i].timestamp)}

\* the predicate, if one is set, accepts the element of the timeline in force
\* at t
AcceptedAt(predicate, timeline, t) ==
    predicate.some =>
        \E i \in LatestUpTo(timeline, t) : timeline[i].value \in predicate.val

\* the entry a filter of the last query was made for
Filtered == reader.val.data[reader.val.keys[query.key]]

PredicatesAccept(value) ==
    /\ AcceptedAt(query.required_metadata_predicate, Filtered.metadata, value.timestamp)
    /\ AcceptedAt(query.required_type_predicate, Filtered.type_str, value.timestamp)

\* C26: with a metadata or type predicate set, collect keeps a value at
\* timestamp t only if the predicate accepts the element of the entry's
\* metadata or type timeline with the greatest timestamp <= t, a value with no
\* such element being rejected; with no bound set it keeps every such value.
PredicatesSeeLatestElement ==
    Collected =>
        LET found == query.result.val IN
        /\ \A i \in DOMAIN found : PredicatesAccept(found[i])
        /\ (~query.before.some /\ ~query.after.some) =>
               found = SelectSeq(Filtered.values, LAMBDA value : PredicatesAccept(value))

\* a value kept under a metadata predicate that accepts the later of the two
\* elements of the metadata timeline and not the earlier
KeptByLaterMetadata ==
    /\ Collected
    /\ query.required_metadata_predicate.some
    /\ Len(Filtered.metadata) = 2
    /\ Filtered.metadata[1].value \notin query.required_metadata_predicate.val
    /\ Len(Filtered.values) = 1
    /\ query.result.val = Filtered.values
    /\ LatestUpTo(Filtered.metadata, Filtered.values[1].timestamp) = {2}

\* ------------------------------------------------------------------------
\* Properties of the Writer's output

\* the Writers whose every output write has succeeded
Sound(w) == Created(w) /\ ~io_failed[w]

\* the records parse_records finds behind the header of Writer w's output
RecordsWritten(w) ==
    parse_records(read_header(writers[w].writer, DefaultConfig).val.file_buffer,
                  EmptyMap).val.records

RECURSIVE DataRecordsOf(_)
DataRecordsOf(recs) ==
    IF recs = <<>> THEN <<>>
    ELSE (IF Head(recs).kind = "Data" THEN <<Head(recs)>> ELSE <<>>)
         \o DataRecordsOf(Tail(recs))

RECURSIVE WrittenTo(_, _)
\* the (timestamp, value) pairs of the writes to entry id, in call order
WrittenTo(writes, id) ==
    IF writes = <<>> THEN <<>>
    ELSE (IF Head(writes).entry_id = id
          THEN <<TimestampedValue(Head(writes).timestamp, Head(writes).value)>>
          ELSE <<>>)
         \o WrittenTo(Tail(writes), id)

\* C5: every entry id a Writer hands out is at least 1, and every data record
\* a Writer has written is read back from its output as a data record, never
\* as a control record.
DataRecordsCarryNonZeroId ==
    /\ \A h \in handles : h.entry_id >= 1
    /\ \A w \in Writers : Sound(w) =>
           Len(DataRecordsOf(RecordsWritten(w))) = Len(written[w])

\* C1: a Reader that opens, with the default configuration, the output of a
\* Writer whose output writes all succeeded returns from read_entry(k), for
\* every key k of the Writer, the (value, timestamp) pairs written to k's
\* entry, in non-decreasing timestamp order.
WriterReaderRoundTrip ==
    \A w \in Writers : Sound(w) =>
        LET r == try_new(writers[w].writer, DefaultConfig)
        IN /\ r.ok
           /\ \A k \in DOMAIN writers[w].entry_id_map :
                 read_entry(r.val, k) =
                    sort_by_key(WrittenTo(written[w], writers[w].entry_id_map[k]))

\* ------------------------------------------------------------------------
\* Properties of the Writer's operations.  After an operation, result names
\* it and what it returned, call holds its arguments, prev is the Writer as
\* the operation met it and writers[result.w] the Writer as it left it.

IsWrite == result.op \in {"write", "write_timestamped", "write_dynamic"}

\* the handle of the last operation was returned by another Writer
HandleOfOtherWriter ==
    \E v \in Writers \ {result.w} :
        Created(v) /\ call.id.datalog_id = writers[v].datalog_id

\* C13: write, write_timestamped and write_dynamic of a non-void value, and
\* close_entry, with a handle another Writer has issued return InvalidDataLog
\* and leave the Writer as it was: its output, its key map, its entry table
\* and the lifestatus of every entry.
HandleOfOtherWriterIsRejected ==
    (/\ (IsWrite /\ call.value # Void) \/ result.op = "close_entry"
     /\ HandleOfOtherWriter)
    => /\ ~result.ok /\ result.err = "InvalidDataLog"
       /\ writers[result.w] = prev

\* write_dynamic of a non-void value on one Writer with a handle of another
WroteWithHandleOfOtherWriter ==
    /\ result.op = "write_dynamic" /\ call.value # Void
    /\ HandleOfOtherWriter
    /\ result.err = "InvalidDataLog"

\* the handle of the last operation is one of the Writer it was called on
OwnHandle == call.id # NoHandle /\ call.id.datalog_id = prev.datalog_id

\* a close_entry of entry id of Writer w has returned Ok
ClosedOk(w, id) ==
    \E i \in DOMAIN emitted[w] :
        emitted[w][i] = ControlOf(Finish, emitted[w][i].timestamp, id)

\* C14: once close_entry(h) has returned Ok, every write, write_timestamped
\* and write_dynamic of a non-void value through a handle of h's log id and
\* entry id fails with OutsideEntryLifetime and leaves the output, and the
\* rest of the Writer, as it was.
WriteAfterCloseFails ==
    (/\ IsWrite /\ call.value # Void
     /\ OwnHandle /\ ClosedOk(result.w, call.id.entry_id))
    => /\ ~result.ok /\ result.err = "OutsideEntryLifetime"
       /\ writers[result.w].writer = prev.writer
       /\ writers[result.w] = prev

\* a write of a non-void value to an entry after its close_entry returned Ok
WroteAfterClose ==
    /\ result.op = "write" /\ call.value # Void
    /\ OwnHandle /\ ClosedOk(result.w, call.id.entry_id)
    /\ result.err = "OutsideEntryLifetime"

\* C15: a write of a void value through write, write_timestamped or
\* write_dynamic returns Ok and leaves the Writer's output and entry table as
\* they were, whatever the handle: one of another Writer, one of a closed
\* entry, one of an entry of another type.
VoidWriteIsNoOp ==
    (IsWrite /\ call.value = Void)
    => /\ result.ok
       /\ writers[result.w].writer = prev.writer
       /\ writers[result.w].entry_data = prev.entry_data
       /\ writers[result.w] = prev

\* a void value written with a handle of another Writer
VoidWrittenWithHandleOfOtherWriter ==
    /\ IsWrite /\ call.value = Void
    /\ HandleOfOtherWriter
    /\ result.ok

\* the last operation has left the output it met in place
OutputKept ==
    /\ Len(prev.writer) <= Len(writers[result.w].writer)
    /\ Take(writers[result.w].writer, Len(prev.writer)) = prev.writer

\* the bytes the last operation has appended to the output
AppendedBytes == Drop(writers[result.w].writer, Len(prev.writer))

\* the last operation has appended one framed record and nothing else, and
\* Record::from_binary reads it
OneRecordAppended ==
    /\ OutputKept
    /\ chunk_by_record(AppendedBytes) = Ok(<<AppendedBytes>>)
    /\ Record_from_binary(AppendedBytes, EmptyMap).ok

AppendedRecord == Record_from_binary(AppendedBytes, EmptyMap).val

\* the entry of the handle of the last operation, before it and after it
EntryBefore == prev.entry_data[call.id.entry_id + 1]

EntryAfter == writers[result.w].entry_data[call.id.entry_id + 1]

\* C16: close_entry on an Alive entry of this Writer makes the entry Dead,
\* its start time kept, and a close_entry that returns Ok has appended one
\* record to the output, a Finish control record carrying the entry's id;
\* close_entry on a Dead entry fails with OutsideEntryLifetime and leaves
\* the Writer as it was, the entry Dead with the end time it had.
CloseEntryFinishesOnce ==
    (result.op = "close_entry" /\ OwnHandle /\ HasEntry(prev, call.id.entry_id))
    => IF EntryBefore.lifestatus.alive
       THEN /\ ~EntryAfter.lifestatus.alive
            /\ EntryAfter.lifestatus.start = EntryBefore.lifestatus.start
            /\ result.ok =>
                  /\ OneRecordAppended
                  /\ AppendedRecord.kind = "Control"
                  /\ AppendedRecord.rec = Finish
                  /\ AppendedRecord.id = call.id.entry_id
       ELSE /\ ~result.ok /\ result.err = "OutsideEntryLifetime"
            /\ writers[result.w] = prev
            /\ EntryAfter.lifestatus = EntryBefore.lifestatus

\* a close_entry of an entry that an earlier close_entry, which returned
\* Ok, had made Dead
ClosedTwice ==
    /\ result.op = "close_entry" /\ OwnHandle /\ HasEntry(prev, call.id.entry_id)
    /\ ~EntryBefore.lifestatus.alive
    /\ ClosedOk(result.w, call.id.entry_id)
    /\ Len(emitted[result.w]) = 2

IsGetEntry == result.op \in {"get_entry_dynamic", "get_entry"}

\* the entry ids the Writer had bound to keys before the last operation
IdsBefore == {prev.entry_id_map[k] : k \in DOMAIN prev.entry_id_map}

\* C17: a get_entry_dynamic for a key the Writer has not bound that returns
\* Ok returns a handle of this Writer with an id no key was bound to, binds
\* the key to it and has appended one record to the output, a Start control
\* record bearing that id, the key and the type; a get_entry_dynamic for a
\* bound key, with the type of its entry and while the entry is Alive,
\* returns the handle of the Writer's log id and the entry id bound to the
\* key and leaves the Writer, its output included, as it was.
GetEntryIsIdempotentPerKey ==
    (IsGetEntry /\ call.entry_type # VoidType)
    => IF call.key \notin DOMAIN prev.entry_id_map
       THEN result.ok =>
              /\ returned.datalog_id = prev.datalog_id
              /\ returned.entry_id \notin IdsBefore
              /\ ~HasEntry(prev, returned.entry_id)
              /\ writers[result.w].entry_id_map[call.key] = returned.entry_id
              /\ OneRecordAppended
              /\ AppendedRecord.kind = "Control"
              /\ AppendedRecord.id = returned.entry_id
              /\ AppendedRecord.rec.c = "Start"
              /\ AppendedRecord.rec.name = call.key
              /\ AppendedRecord.rec.entry_type = get_data_type(call.entry_type).val
       ELSE LET id == prev.entry_id_map[call.key]
                data == prev.entry_data[id + 1]
            IN (/\ data.entry_type = get_data_type(call.entry_type).val
                /\ data.lifestatus.alive)
               => /\ result.ok
                  /\ returned.datalog_id = prev.datalog_id
                  /\ returned.entry_id = id
                  /\ writers[result.w] = prev

\* a second get_entry_dynamic for a key, of the type of its Alive entry,
\* on a Writer that has two entries
GotEntryAgain ==
    /\ result.op = "get_entry_dynamic" /\ result.ok
    /\ call.key \in DOMAIN prev.entry_id_map
    /\ Len(prev.entry_data) = 2
    /\ returned.entry_id = prev.entry_id_map[call.key]
    /\ writers[result.w] = prev

\* the last operation asked for a key the Writer had bound
AskedForBoundKey ==
    /\ IsGetEntry /\ call.entry_type # VoidType
    /\ call.key \in DOMAIN prev.entry_id_map
    /\ HasEntry(prev, prev.entry_id_map[call.key])

\* the entry the key of the last operation was bound to
BoundEntry == prev.entry_data[prev.entry_id_map[call.key] + 1]

\* C29: get_entry_dynamic for a bound key returns EntryTypeMismatch when the
\* fingerprint of the requested type differs from the entry's, whether the
\* entry is Alive or Dead, and otherwise OutsideEntryLifetime when the entry
\* is Dead; either way it returns no handle and leaves the Writer as it was:
\* its output, its next id, its key map and its entries.
BoundKeyChecksTypeBeforeLifetime ==
    AskedForBoundKey =>
        /\ BoundEntry.prehashed_type # get_data_type_serial(call.entry_type)
           => (~result.ok /\ result.err = "EntryTypeMismatch")
        /\ (/\ BoundEntry.prehashed_type = get_data_type_serial(call.entry_type)
            /\ ~BoundEntry.lifestatus.alive)
           => (~result.ok /\ result.err = "OutsideEntryLifetime")
        /\ ~result.ok =>
              /\ result.err \in {"EntryTypeMismatch", "OutsideEntryLifetime"}
              /\ returned = NoHandle
              /\ writers[result.w] = prev

\* the key of a Dead entry asked for with another type
AskedDeadEntryWithOtherType ==
    /\ AskedForBoundKey
    /\ ~BoundEntry.lifestatus.alive
    /\ BoundEntry.prehashed_type # get_data_type_serial(call.entry_type)
    /\ result.err = "EntryTypeMismatch"
    /\ writers[result.w] = prev

\* the last operation was given a non-void value and a handle of an Alive
\* entry of the Writer it was called on
WroteToAliveEntry ==
    /\ IsWrite /\ call.value # Void
    /\ OwnHandle /\ HasEntry(prev, call.id.entry_id)
    /\ EntryBefore.lifestatus.alive

\* the type fingerprint of the value differs from the entry's
TypeDiffers(data, value) ==
    data.prehashed_type # get_data_type_serial(get_type(value))

\* the handles of the Alive entries of Writer w
AliveHandles(w) ==
    {h \in handles : /\ h.datalog_id = writers[w].datalog_id
                     /\ HasEntry(writers[w], h.entry_id)
                     /\ writers[w].entry_data[h.entry_id + 1].lifestatus.alive}

\* C18: on an Alive entry of the Writer, write_dynamic of a non-void value
\* whose type fingerprint differs from the entry's prehashed type fails with
\* EntryTypeMismatch and leaves the Writer and its output as they were;
\* write and write_timestamped of a non-void value that return Ok have
\* appended the value's data record under the entry's id, and they do so
\* for a value of any type, the entry's or another, when the output takes it.
OnlyWriteDynamicChecksType ==
    /\ (WroteToAliveEntry /\ result.op = "write_dynamic"
            /\ TypeDiffers(EntryBefore, call.value))
        => /\ ~result.ok /\ result.err = "EntryTypeMismatch"
           /\ writers[result.w] = prev
    /\ (WroteToAliveEntry /\ result.op # "write_dynamic")
        => /\ result.ok \/ result.err = "Io"
           /\ result.ok =>
                 LET record == emitted[result.w][Len(emitted[result.w])]
                 IN /\ OutputKept
                    /\ chunk_by_record(AppendedBytes) = Ok(<<AppendedBytes>>)
                    /\ AppendedBytes = Record_write_to(record)
                    /\ record.kind = "Data"
                    /\ record.id = call.id.entry_id
                    /\ into_frc_value(record.rec) = call.value
    /\ \A w \in Writers : Created(w) =>
          \A h \in AliveHandles(w), value \in Values \ {Void}, timestamp \in Times :
             /\ write(writers[w], h, value, timestamp, IoOk).res.ok
             /\ write_timestamped(writers[w], h, value, timestamp, IoOk) =
                   [w |-> [writers[w] EXCEPT !.writer =
                              @ \o DataRecord_write_to(DataRecord_from(value),
                                                       timestamp, h.entry_id)],
                    res |-> Ok("unit")]

\* a write_dynamic of a string to an Alive int64 entry, refused
WroteOtherTypeDynamically ==
    /\ WroteToAliveEntry /\ result.op = "write_dynamic"
    /\ TypeDiffers(EntryBefore, call.value)
    /\ get_type(call.value) = PrimType("String")
    /\ result.err = "EntryTypeMismatch"

IsWriterOperation == IsGetEntry \/ IsWrite \/ result.op = "close_entry"

\* C24: any two Writers constructed in the process have distinct log ids,
\* in whatever order their constructions took the shared counter, and a
\* write of a non-void value or a close_entry with a handle one of them has
\* issued is refused by the other with InvalidDataLog.
LogIdsAreDistinct ==
    /\ \A v, w \in Writers :
           (v # w /\ Created(v) /\ Created(w))
           => writers[v].datalog_id # writers[w].datalog_id
    /\ (/\ (IsWrite /\ call.value # Void) \/ result.op = "close_entry"
        /\ call.id \in handles
        /\ call.id.datalog_id # prev.datalog_id)
       => (~result.ok /\ result.err = "InvalidDataLog")

\* two Writers, and a close_entry on one with a handle of the other
ClosedWithHandleOfOtherWriter ==
    /\ \A w \in Writers : Created(w)
    /\ result.op = "close_entry"
    /\ HandleOfOtherWriter
    /\ call.id \in handles
    /\ result.err = "InvalidDataLog"

\* C19: when get_entry_dynamic, a write path or close_entry returns an
\* error, a failed output write included, the Writer's key map, entry table
\* with every entry's lifestatus, and next-id counter are as they were before
\* the call.
ErrorLeavesWriterAsItWas ==
    (IsWriterOperation /\ ~result.ok)
    => /\ writers[result.w].entry_id_map = prev.entry_id_map
       /\ writers[result.w].entry_data = prev.entry_data
       /\ writers[result.w].highest_entry_id = prev.highest_entry_id

IdsOf(self) == {self.entry_id_map[k] : k \in DOMAIN self.entry_id_map}

\* C33: in every Writer the counter of ids is the number of entries and the
\* number of keys, the map from keys to ids is injective and its ids are
\* the numbers from 0 below the counter; an operation leaves every key it
\* met bound to the id it had, and a key it binds gets the value the counter
\* had, which then grows by one, closed entries or not.
CounterCountsEntriesAndKeys ==
    /\ \A w \in Writers : Created(w) =>
          LET self == writers[w]
          IN /\ self.highest_entry_id = Len(self.entry_data)
             /\ self.highest_entry_id = Cardinality(DOMAIN self.entry_id_map)
             /\ \A j, k \in DOMAIN self.entry_id_map :
                   self.entry_id_map[j] = self.entry_id_map[k] => j = k
             /\ IdsOf(self) = 0..(self.highest_entry_id - 1)
    /\ IsWriterOperation =>
          LET self == writers[result.w]
          IN /\ \A k \in DOMAIN prev.entry_id_map :
                   /\ k \in DOMAIN self.entry_id_map
                   /\ self.entry_id_map[k] = prev.entry_id_map[k]
             /\ \A k \in DOMAIN self.entry_id_map \ DOMAIN prev.entry_id_map :
                   /\ self.entry_id_map[k] = prev.highest_entry_id
                   /\ self.entry_id_map[k] \notin IdsOf(prev)
                   /\ self.highest_entry_id = prev.highest_entry_id + 1
             /\ self.highest_entry_id >= prev.highest_entry_id

\* a key bound after the entry of another key was closed: it gets the next
\* id, not the id of the closed entry
BoundAfterClose ==
    /\ IsGetEntry /\ result.ok
    /\ call.key \notin DOMAIN prev.entry_id_map
    /\ Len(prev.entry_data) = 1
    /\ ~prev.entry_data[1].lifestatus.alive
    /\ returned.entry_id = 1
    /\ writers[result.w].highest_entry_id = 2

\* the ids of the entries that were Dead before the last operation
DeadBefore == {i - 1 : i \in {j \in DOMAIN prev.entry_data : ~prev.entry_data[j].lifestatus.alive}}

\* the last operation has appended one framed record, a Start
StartAppended ==
    /\ OneRecordAppended
    /\ AppendedRecord.kind = "Control"
    /\ AppendedRecord.rec.c = "Start"

OutputChunks(w) ==
    chunk_by_record(read_header(writers[w].writer, DefaultConfig).val.file_buffer).val

\* the entry id in the header of a framed record
HeaderId(chunk) ==
    Deref(UInt_from_binary(SubSeq(chunk, 2, 1 + id_length(from_bits_truncate(chunk[1])))).val)

\* a framed record of the output by kind and entry: a frame that reads as a
\* control record is the Start or Finish of the entry it names, any other
\* frame is a data record of the entry of its header (of entry 0 as well,
\* whose data records bear the id of the control records and do not read as
\* one with the values written here)
OutputRecord(chunk) ==
    LET record == Record_from_binary(chunk, EmptyMap)
    IN IF record.ok /\ record.val.kind = "Control"
       THEN [k |-> record.val.rec.c, id |-> record.val.id]
       ELSE [k |-> "Data", id |-> HeaderId(chunk)]

OutputRecords(w) == [i \in DOMAIN OutputChunks(w) |-> OutputRecord(OutputChunks(w)[i])]

\* the places of the records of kind k of entry id in a record sequence
Places(recs, k, id) == {i \in DOMAIN recs : recs[i].k = k /\ recs[i].id = id}

====
